---- MODULE Spec2Model ----
(***************************************************************************)
(* The task loop of ClaudeDev: recursivelyMakeClaudeRequests,              *)
(* attemptApiRequest, initiateTaskLoop, the ask/say approval gate,         *)
(* abortTask and resumeTaskFromHistory.                                    *)
(*                                                                         *)
(* The repository holds two revisions of the class.  Revision "A" is the   *)
(* class of src/unnamed/part_001 (lines 39-1221): it has requestCount and  *)
(* maxRequestsPerTask.  Revision "B" is src/src/ClaudeDev.ts: it declares  *)
(* neither field (so its request-limit comparison is undefined >=          *)
(* undefined and never fires), appends the turn's user content twice and   *)
(* truncates the history inside attemptApiRequest.  The variable version   *)
(* says which revision an execution runs; it never changes.                *)
(*                                                                         *)
(* One step of the model is one stretch of code between two awaits.        *)
(*                                                                         *)
(* The task loop takes ask and say as single steps.  A second part follows *)
(* every call of ask and say through its own awaits (the save of the       *)
(* display log, the wait for the response), with the task loop and the     *)
(* stdout handler of executeCommand as callers.                            *)
(***************************************************************************)
EXTENDS Integers, Sequences, FiniteSets, TLC

\* ---------------------------------------------------------------- bounds
MaxApiCalls == 2      \* provider calls (createMessage) started in one run of revision A
MaxApiCallsB == 4     \* provider calls started in one run of revision B
MaxApiCallsR == 1     \* provider calls started in one run with a resume
MaxBlocks == 2        \* content blocks in one provider response
MaxToolUses == 2      \* tool_use blocks the provider sends in one run
MaxLimit == 1         \* largest maxRequestsPerTask a run is configured with
MaxLimitUpdates == 1  \* changes of the setting maxRequestsPerTask in one run
MaxResumes == 2       \* times a task is resumed from its persisted state
MaxCalls == 3         \* calls of ask and say followed call by call
MaxRelayCalls == 5    \* the same, in the runs that follow one command and its output asks
MaxNow == 3           \* largest value of Date.now(), which starts at 1
MaxApiCallsT == 2     \* provider calls started in one run with every tool
MaxOutputAsks == 2    \* command_output asks made during one run of a command
MaxChunks == 2        \* chunks of one streamed completion
MaxDeltas == 2        \* tool-call deltas in one chunk
MaxDeliveries == 3    \* answers of the webview whose delivery is followed
MaxToolCalls == 2     \* tool uses of one assistant turn handed to convertToOpenAiMessages
MaxFiles == 3         \* entries of a directory listing whose order is examined

\* ------------------------------------------------------ program constants
ContextWindow == 200000
ContextReserve == 40000
ListFilesLimit == 1000

Versions == {"A", "B"}
AskResponses == {"yesButtonTapped", "noButtonTapped", "messageResponse"}
LimitValues == 0..MaxLimit
\* the usage a provider response may report
Usages ==
    {[tokensIn |-> 900, tokensOut |-> 100, cacheWrites |-> 0, cacheReads |-> 0],
     [tokensIn |-> 100000, tokensOut |-> 10000, cacheWrites |-> 20000, cacheReads |-> 30000],
     [tokensIn |-> 100000, tokensOut |-> 20000, cacheWrites |-> 20000, cacheReads |-> 30000]}
\* (tokensIn || 0) + (tokensOut || 0) + (cacheWrites || 0) + (cacheReads || 0)
totalTokens(u) == u.tokensIn + u.tokensOut + u.cacheWrites + u.cacheReads
\* token totals of these usages: below, at and above the high-water mark
TokenTotals == {totalTokens(u) : u \in Usages}
\* kinds of content block a provider response is made of
BlockKinds == {"text", "execute_command", "attempt_completion"}
\* the tools of executeTool that read without changing anything
ReadOnlyTools(v) ==
    IF v = "A"
    THEN {"read_file", "list_files_top_level", "list_files_recursive",
          "view_source_code_definitions_top_level"}
    ELSE {"read_file", "list_files", "list_code_definition_names", "search_files"}
\* the cases of the switch of executeTool
ToolNames(v) ==
    ReadOnlyTools(v) \cup {"write_to_file", "execute_command", "ask_followup_question",
                           "attempt_completion"}

VARIABLES
    version,                 \* which revision of the class runs
    abort,                   \* this.abort
    requestCount,            \* this.requestCount (revision A)
    maxRequestsPerTask,      \* this.maxRequestsPerTask (revision A)
    apiConversationHistory,  \* this.apiConversationHistory, saved after every change
    claudeMessages,          \* this.claudeMessages (display log)
    askResponse,             \* this.askResponse ("" is undefined)
    pc,                      \* where the task loop stands
    depth,                   \* live frames of recursivelyMakeClaudeRequests
    userContent,             \* parameter of the current frame
    response,                \* content of the provider response being interpreted
    idx,                     \* position of the for loops over response.content
    assistantResponses,      \* local of recursivelyMakeClaudeRequests
    toolResults,             \* local of recursivelyMakeClaudeRequests
    attemptCompletionBlock,  \* local: the block kept for last (<<>> is undefined)
    didEndLoop,              \* result being returned through the frames
    inCompletion,            \* executeCommand runs the demo command of attempt_completion
    apiCalls,                \* provider calls started so far (bounds the run)
    toolUses,                \* tool_use blocks received so far (bounds the run)
    limitUpdates,            \* changes of maxRequestsPerTask so far (bounds the run)
    responses,               \* provider responses received so far (numbers tool ids)
    resumes,                 \* resumes so far (bounds the run)
    lastCallHistory,         \* history handed to the latest createMessage
    callFailed,              \* the latest createMessage failed and was not yet retried
    retryHistoryDiffers,     \* some retry was made with another history than the failed call
    limitAsked,              \* this frame's request_limit_reached ask: "", "asked", "yes", "no"
    limitAtCheck,            \* maxRequestsPerTask as read by this frame's limit check
    failedDeclined,          \* an api_req_failed ask was answered other than approve
    limitDeclined,           \* a request_limit_reached ask was answered other than approve
    toolLog,                 \* tool executions of the current response, in order
    turnCalls,               \* provider calls started by the current frame
    completionAnswer,        \* the answer to the current response's completion_result ask
    askResponseText,         \* this.askResponseText ("" is undefined)
    lastMessageTs,           \* this.lastMessageTs (0 is undefined)
    now,                     \* Date.now()
    calls,                   \* the calls of ask and say made so far, each with its position
    savedClaudeMessages,     \* claude_messages.json of the task directory
    callsAtAbort,            \* provider calls started when abortTask was called
    historyAtAbort,          \* length of the API conversation history when abortTask was called
    resumedFrom,             \* the persisted history the latest resume reconciled
    resumeFeedback,          \* the user typed new text into the resume ask of that resume
    alwaysAllowReadOnly,     \* this.alwaysAllowReadOnly (revision B)
    effects,                 \* what the tools of the current response did to files and processes
    commandOutputAsk,        \* the latest sendCommandOutput of the running command: "", "wait", "returned"
    lacking,                 \* ids of the current response's tool uses that lack a required parameter
    stream,                  \* OpenRouterHandler.streamCompletion: the chunks of the stream
    chunkNo,                 \* position of its for await loop; 0 when no completion is streamed
    textContent,             \* its local textContent
    toolCalls,               \* its local toolCalls
    currentToolCall,         \* its local currentToolCall (<<>> is null)
    files,                   \* formatFilesList: its parameter files
    filesList,               \* formatFilesList: what it returned (<<>> before it is called)
    deliveries,              \* for every response the webview delivered, the calls of ask and say made before it
    anthropicMessages,       \* convertToOpenAiMessages: its parameter
    openAiMessages           \* convertToOpenAiMessages: what it returned (<<>> before it is called)

vars == <<version, abort, requestCount, maxRequestsPerTask, apiConversationHistory,
          claudeMessages, askResponse, pc, depth, userContent, response, idx,
          assistantResponses, toolResults, attemptCompletionBlock, didEndLoop,
          inCompletion, apiCalls, toolUses, limitUpdates, responses, resumes, lastCallHistory, callFailed,
          retryHistoryDiffers, limitAsked, limitAtCheck, failedDeclined,
          limitDeclined, toolLog, turnCalls, completionAnswer, askResponseText,
          lastMessageTs, now, calls, savedClaudeMessages, callsAtAbort, historyAtAbort,
          resumedFrom, resumeFeedback, alwaysAllowReadOnly, effects, commandOutputAsk,
          lacking, stream, chunkNo, textContent, toolCalls, currentToolCall,
          files, filesList, deliveries, anthropicMessages, openAiMessages>>

\* -------------------------------------------------------------- messages
TextBlock(t) == [type |-> "text", id |-> 0, content |-> t]
ToolUseBlock(i, name) == [type |-> "tool_use", id |-> i, content |-> name]
ToolResultBlock(i, c) == [type |-> "tool_result", id |-> i, content |-> c]
Message(r, c) == [role |-> r, content |-> c]
ClaudeMessage(t, sub, tot) == [type |-> t, subtype |-> sub, total |-> tot]

Max(a, b) == IF a >= b THEN a ELSE b
Last(s) == s[Len(s)]
IsToolUse(b) == b.type = "tool_use"
IsToolResult(b) == b.type = "tool_result"
IsText(b) == b.type = "text"
NotText(b) == b.type # "text"

\* findLastIndex of utils, given the positions whose element satisfies the
\* predicate: the last of them, 0 if there is none (the source is 0-based and
\* answers -1)
findLastIndex(hits) ==
    IF hits = {} THEN 0 ELSE CHOOSE i \in hits : \A j \in hits : j <= i

\* the position a for loop over the blocks comes to next, given the positions
\* it has still to visit: the first of them, 0 if there is none
NextIndex(hits) ==
    IF hits = {} THEN 0 ELSE CHOOSE i \in hits : \A j \in hits : i <= j

RemoveAt(s, i) == SubSeq(s, 1, i - 1) \o SubSeq(s, i + 1, Len(s))

\* ------------------------------------------------- provider responses
\* every sequence of at most MaxBlocks block kinds
ResponseShapes == UNION {[1..n -> BlockKinds] : n \in 0..MaxBlocks}
\* one text block or one use of any tool, or a command followed by another tool
ToolShapesOf(v) ==
    {<<k>> : k \in ToolNames(v) \cup {"text"}}
       \cup {<<"execute_command", k>> : k \in {"read_file", "write_to_file"}}
\* responses without tool use
TextShapes == UNION {[1..n -> {"text"}] : n \in 0..1}
NumToolUses(sh) == Cardinality({i \in 1..Len(sh) : sh[i] # "text"})
\* revision A never reads the totals it logs
TokenTotalsOf(v) == IF v = "B" THEN TokenTotals ELSE {1000}

\* the content blocks of the k-th provider response of shape sh; tool-use ids
\* are unique over the run
ResponseContent(sh, k) ==
    [i \in 1..Len(sh) |->
        IF sh[i] = "text" THEN TextBlock("assistant_text")
        ELSE ToolUseBlock(10 * k + i, sh[i])]

\* ---------------------------------------------- addToApiConversationHistory
addToApiConversationHistory(h, m) == Append(h, m)

\* ------------------------------------------------ truncateHalfConversation
\* keeps the first message and drops the oldest half of the rest, an even
\* number of messages so that user/assistant pairs stay aligned
truncateHalfConversation(h) ==
    IF Len(h) = 0 THEN h
    ELSE LET messagesToRemove == 2 * ((Len(h) - 1) \div 4)
         IN <<h[1]>> \o SubSeq(h, messagesToRemove + 2, Len(h))

\* ------------------------------------------------------------ ask and say
\* the DisplayEvent a say / an ask appends (addToClaudeMessages)
SayLog(log, sub, tot) == Append(log, ClaudeMessage("say", sub, tot))
AskLog(log, sub) == Append(log, ClaudeMessage("ask", sub, 0))

IsResumeMarker(m) == m.type = "ask" /\ m.subtype \in {"resume_task", "resume_completed_task"}
IsApiReqStarted(m) == m.type = "say" /\ m.subtype = "api_req_started"
IsApiReqFinished(m) == m.type = "say" /\ m.subtype = "api_req_finished"

\* the high-water mark of attemptApiRequest (revision B)
maxAllowedSize == Max(ContextWindow - ContextReserve, (ContextWindow * 8) \div 10)

\* the same with a mark that must be exceeded
HistoryForRequestAbove(h, log) ==
    LET lastFin == findLastIndex({i \in 1..Len(log) : IsApiReqFinished(log[i])})
    IN IF version = "B" /\ lastFin # 0 /\ log[lastFin].total > maxAllowedSize
       THEN truncateHalfConversation(h)
       ELSE h

\* the history attemptApiRequest hands to createMessage: revision B truncates it
\* when the latest api_req_finished entry reports a total at the mark or above
HistoryForRequest(h, log) ==
    LET lastFin == findLastIndex({i \in 1..Len(log) : IsApiReqFinished(log[i])})
    IN IF version = "B" /\ lastFin # 0 /\ log[lastFin].total >= maxAllowedSize
       THEN truncateHalfConversation(h)
       ELSE h

\* ------------------------------------------------------------------ state
locals == <<response, idx, assistantResponses, toolResults, attemptCompletionBlock, toolLog,
           inCompletion, completionAnswer, effects, commandOutputAsk, lacking>>
\* the locals of OpenRouterHandler.streamCompletion
handler == <<stream, chunkNo, textContent, toolCalls, currentToolCall>>
\* the parameter and the result of formatFilesList
listing == <<files, filesList>>
\* what the steps of the task loop leave alone: the settings and the handler
\* the parameter and the result of convertToOpenAiMessages
conversion == <<anthropicMessages, openAiMessages>>
config == <<version, maxRequestsPerTask, limitUpdates, alwaysAllowReadOnly, handler, listing,
           conversion, deliveries>>
callGhosts == <<apiCalls, toolUses, lastCallHistory, callFailed, retryHistoryDiffers, turnCalls>>
callsSoFar == <<apiCalls, toolUses, lastCallHistory, callFailed, retryHistoryDiffers>>
limitGhosts == <<limitAsked, limitAtCheck, limitDeclined>>
abortGhosts == <<callsAtAbort, historyAtAbort>>
resumeGhosts == <<resumedFrom, resumeFeedback>>
\* the state of ask and say that the task loop's steps do not look at
protocol == <<askResponseText, lastMessageTs, now, calls, savedClaudeMessages>>

\* the state after the constructor, called with a task
InitTask(v) ==
    /\ version = v
    /\ abort = FALSE
    /\ requestCount = 0
    /\ maxRequestsPerTask \in (IF v = "A" THEN LimitValues ELSE {0})
    /\ toolUses = 0
    /\ limitUpdates = 0
    /\ apiConversationHistory = <<>>
    /\ claudeMessages = <<>>
    /\ askResponse = ""
    /\ deliveries = <<>>
    /\ pc = "start"
    /\ depth = 0
    /\ userContent = <<>>
    /\ response = <<>>
    /\ idx = 1
    /\ assistantResponses = <<>>
    /\ toolResults = <<>>
    /\ attemptCompletionBlock = <<>>
    /\ didEndLoop = FALSE
    /\ inCompletion = FALSE
    /\ apiCalls = 0
    /\ responses = 0
    /\ resumes = 0
    /\ lastCallHistory = <<>>
    /\ callFailed = FALSE
    /\ retryHistoryDiffers = FALSE
    /\ limitAsked = ""
    /\ limitAtCheck = 0
    /\ failedDeclined = FALSE
    /\ limitDeclined = FALSE
    /\ toolLog = <<>>
    /\ turnCalls = 0
    /\ completionAnswer = ""
    /\ askResponseText = ""
    /\ lastMessageTs = 0
    /\ now = 1
    /\ calls = <<>>
    /\ savedClaudeMessages = <<>>
    /\ callsAtAbort = 0
    /\ historyAtAbort = 0
    /\ resumedFrom = <<>>
    /\ resumeFeedback = FALSE
    /\ alwaysAllowReadOnly = FALSE
    /\ effects = <<>>
    /\ commandOutputAsk = ""
    /\ lacking = {}

\* no completion is being streamed
InitHandler ==
    /\ stream = <<>>
    /\ chunkNo = 0
    /\ textContent = <<>>
    /\ toolCalls = <<>>
    /\ currentToolCall = <<>>

\* formatFilesList is not called
InitListing == files = <<>> /\ filesList = <<>>

InitConversion == anthropicMessages = <<>> /\ openAiMessages = <<>>

InitOf(v) == InitTask(v) /\ InitHandler /\ InitListing /\ InitConversion

\* an exception inside the try block of recursivelyMakeClaudeRequests: its catch
\* returns { didEndLoop: true }
ThrowInTry ==
    /\ pc' = "return"
    /\ didEndLoop' = TRUE
    /\ depth' = depth

\* an exception before the try block (the entry check, the request-limit ask,
\* the api_req_started say): a nested frame's caller catches it, the outermost
\* frame rejects initiateTaskLoop
ThrowOutsideTry ==
    IF depth > 1
    THEN pc' = "return" /\ didEndLoop' = TRUE /\ depth' = depth - 1
    ELSE pc' = "rejected" /\ didEndLoop' = didEndLoop /\ depth' = 0

\* say("api_req_started") and on to attemptApiRequest
SayApiReqStarted ==
    IF abort
    THEN ThrowOutsideTry /\ UNCHANGED claudeMessages
    ELSE /\ claudeMessages' = SayLog(claudeMessages, "api_req_started", 0)
         /\ pc' = "api_call"
         /\ UNCHANGED <<depth, didEndLoop>>

\* startTask: say("text", task), then initiateTaskLoop
StartTask ==
    /\ pc = "start"
    /\ IF abort
       THEN pc' = "rejected" /\ UNCHANGED <<claudeMessages, userContent>>
       ELSE /\ claudeMessages' = SayLog(claudeMessages, "text", 0)
            /\ userContent' = <<TextBlock("task")>>
            /\ pc' = "loop_check"
    /\ UNCHANGED <<config, protocol, abort, abortGhosts, requestCount, apiConversationHistory, askResponse, depth,
                   locals, didEndLoop, callGhosts, responses, resumes, resumeGhosts, limitGhosts,
                   failedDeclined>>

\* initiateTaskLoop: while (!this.abort), and the entry of the outermost frame
\* of recursivelyMakeClaudeRequests up to its first await
EnterLoop ==
    /\ pc = "loop_check"
    /\ IF abort
       THEN pc' = "done" /\ UNCHANGED <<apiConversationHistory, depth>>
       ELSE /\ apiConversationHistory' =
                  addToApiConversationHistory(apiConversationHistory, Message("user", userContent))
            /\ depth' = 1
            /\ pc' = "limit_check"
    /\ limitAsked' = ""
    /\ turnCalls' = 0
    /\ UNCHANGED <<config, protocol, abort, abortGhosts, requestCount, claudeMessages, askResponse, userContent,
                   locals, didEndLoop, callsSoFar, responses, resumes, resumeGhosts, limitAtCheck,
                   limitDeclined, failedDeclined>>

\* the recursive call recursivelyMakeClaudeRequests(toolResults), made inside the
\* caller's try block
EnterRecursive ==
    /\ pc = "recurse"
    /\ IF abort
       THEN ThrowInTry /\ UNCHANGED <<apiConversationHistory, userContent>>
       ELSE /\ apiConversationHistory' =
                  addToApiConversationHistory(apiConversationHistory, Message("user", toolResults))
            /\ userContent' = toolResults
            /\ depth' = depth + 1
            /\ pc' = "limit_check"
            /\ UNCHANGED didEndLoop
    /\ limitAsked' = ""
    /\ turnCalls' = 0
    /\ UNCHANGED <<config, protocol, abort, abortGhosts, requestCount, claudeMessages, askResponse,
                   locals, callsSoFar, responses, resumes, resumeGhosts, limitAtCheck,
                   limitDeclined, failedDeclined>>

\* the request limit tested one request late
LimitReachedStrict(count, limit) == count > limit

\* the test of the request limit
LimitReached(count, limit) == count >= limit

\* revision A: if (requestCount >= maxRequestsPerTask) ask("request_limit_reached"),
\* else say("api_req_started")
LimitCheckA ==
    /\ pc = "limit_check"
    /\ version = "A"
    /\ limitAtCheck' = maxRequestsPerTask
    /\ IF LimitReached(requestCount, maxRequestsPerTask)
       THEN IF abort
            THEN ThrowOutsideTry /\ UNCHANGED <<claudeMessages, askResponse, limitAsked>>
            ELSE /\ claudeMessages' = AskLog(claudeMessages, "request_limit_reached")
                 /\ askResponse' = ""
                 /\ limitAsked' = "asked"
                 /\ pc' = "ask_limit"
                 /\ UNCHANGED <<depth, didEndLoop>>
       ELSE SayApiReqStarted /\ UNCHANGED <<askResponse, limitAsked>>
    /\ UNCHANGED <<config, protocol, abort, abortGhosts, requestCount, apiConversationHistory, userContent,
                   locals, callGhosts, responses, resumes, resumeGhosts, limitDeclined, failedDeclined>>

\* revision B: the class has no requestCount, the limit is never reached; the
\* user content is appended a second time
LimitCheckB ==
    /\ pc = "limit_check"
    /\ version = "B"
    /\ apiConversationHistory' =
           addToApiConversationHistory(apiConversationHistory, Message("user", userContent))
    /\ pc' = "say_started"
    /\ UNCHANGED <<config, protocol, abort, abortGhosts, requestCount, claudeMessages, askResponse, depth, userContent,
                   locals, didEndLoop, callGhosts, responses, resumes, resumeGhosts, limitGhosts,
                   failedDeclined>>

SayStartedB ==
    /\ pc = "say_started"
    /\ SayApiReqStarted
    /\ UNCHANGED <<config, protocol, abort, abortGhosts, requestCount, apiConversationHistory, askResponse, userContent,
                   locals, callGhosts, responses, resumes, resumeGhosts, limitGhosts, failedDeclined>>

\* handleWebviewAskResponse: the webview answers the ask it shows
AskStates == {"ask_limit", "ask_failed", "command_ask", "completion_ask", "resume_ask",
              "write_ask", "read_ask", "followup_ask"}

handleWebviewAskResponse(r) ==
    /\ pc \in AskStates \/ (pc = "command_run" /\ commandOutputAsk = "wait")
    /\ askResponse = ""
    /\ askResponse' = r
    /\ UNCHANGED <<config, protocol, abort, abortGhosts, requestCount, apiConversationHistory, claudeMessages, pc, depth,
                   userContent, locals, didEndLoop, callGhosts, responses, resumes, resumeGhosts, limitGhosts,
                   failedDeclined>>

\* the approval that forgets to reset the counter
KeepRequestCount(count) == count

\* this.requestCount = 0 on approval
ResetRequestCount(count) == 0

\* the decline that lets the loop go on
LimitDeclinedGoesOn == FALSE

\* return { didEndLoop: true } when the ask is not approved
LimitDeclinedDidEndLoop == TRUE

\* the request_limit_reached ask returns
AskLimitReturn ==
    /\ pc = "ask_limit"
    /\ askResponse # ""
    /\ askResponse' = ""
    /\ limitAsked' = IF askResponse = "yesButtonTapped" THEN "yes" ELSE "no"
    /\ limitDeclined' = (limitDeclined \/ askResponse # "yesButtonTapped")
    /\ IF askResponse = "yesButtonTapped"
       THEN /\ requestCount' = ResetRequestCount(requestCount)
            /\ SayApiReqStarted
            /\ UNCHANGED apiConversationHistory
       ELSE /\ apiConversationHistory' = addToApiConversationHistory(apiConversationHistory,
                  Message("assistant", <<TextBlock("request_limit_failure")>>))
            /\ didEndLoop' = LimitDeclinedDidEndLoop
            /\ pc' = "return"
            /\ UNCHANGED <<requestCount, claudeMessages, depth>>
    /\ UNCHANGED <<config, protocol, abort, abortGhosts, userContent, locals, callGhosts, responses, resumes, resumeGhosts,
                   limitAtCheck, failedDeclined>>

\* attemptApiRequest up to createMessage: revision B first truncates the history
\* when the last recorded usage is at the high-water mark
AttemptApiRequest(maxCalls) ==
    /\ pc = "api_call"
    /\ apiCalls < maxCalls
    /\ LET h == HistoryForRequest(apiConversationHistory, claudeMessages)
       IN /\ apiConversationHistory' = h
          /\ lastCallHistory' = h
          /\ retryHistoryDiffers' = (retryHistoryDiffers \/ (callFailed /\ h # lastCallHistory))
    /\ apiCalls' = apiCalls + 1
    /\ turnCalls' = turnCalls + 1
    /\ callFailed' = FALSE
    /\ pc' = "api_inflight"
    /\ UNCHANGED <<config, protocol, abort, abortGhosts, requestCount, claudeMessages, askResponse, depth, userContent,
                   locals, didEndLoop, toolUses, responses, resumes, resumeGhosts, limitGhosts, failedDeclined>>

\* a provider response that is not counted
IncrementRequestCountSkipped(count) == count

\* this.requestCount++ after attemptApiRequest has returned
IncrementRequestCount(count) == count + 1

\* createMessage answers: requestCount++ (revision A), the abort check,
\* say("api_req_finished")
ProviderResponds(shapes) ==
    /\ pc = "api_inflight"
    /\ responses' = responses + 1
    /\ requestCount' = IF version = "A" THEN IncrementRequestCount(requestCount)
                                         ELSE requestCount
    /\ \E sh \in shapes, tot \in TokenTotalsOf(version) :
          /\ toolUses + NumToolUses(sh) <= MaxToolUses
          /\ toolUses' = toolUses + NumToolUses(sh)
          /\ IF abort
             THEN ThrowInTry /\ UNCHANGED <<claudeMessages, locals>>
             ELSE
               /\ claudeMessages' = SayLog(claudeMessages, "api_req_finished", tot)
               /\ response' = ResponseContent(sh, responses + 1)
               /\ idx' = 1
               /\ assistantResponses' = <<>>
               /\ toolResults' = <<>>
               /\ attemptCompletionBlock' = <<>>
               /\ toolLog' = <<>>
               /\ inCompletion' = FALSE
               /\ completionAnswer' = ""
               /\ effects' = <<>>
               /\ commandOutputAsk' = ""
               /\ lacking' = {}
               /\ didEndLoop' = FALSE
               /\ pc' = "text_loop"
               /\ UNCHANGED depth
    /\ UNCHANGED <<config, protocol, abort, abortGhosts, apiConversationHistory, askResponse, userContent,
                   apiCalls, lastCallHistory, callFailed, retryHistoryDiffers, turnCalls,
                   resumes, resumeGhosts, limitGhosts, failedDeclined>>

\* createMessage fails: the catch of attemptApiRequest asks api_req_failed
ProviderFails ==
    /\ pc = "api_inflight"
    /\ callFailed' = TRUE
    /\ IF abort
       THEN ThrowInTry /\ UNCHANGED <<claudeMessages, askResponse>>
       ELSE /\ claudeMessages' = AskLog(claudeMessages, "api_req_failed")
            /\ askResponse' = ""
            /\ pc' = "ask_failed"
            /\ UNCHANGED <<depth, didEndLoop>>
    /\ UNCHANGED <<config, protocol, abort, abortGhosts, requestCount, apiConversationHistory, userContent, locals,
                   apiCalls, toolUses, lastCallHistory, retryHistoryDiffers, turnCalls,
                   responses, resumes, resumeGhosts, limitGhosts, failedDeclined>>

\* a retry that announces the request once more
ApiReqRetriedAsStarted == "api_req_started"

\* what attemptApiRequest says before it calls itself again
ApiReqRetried == "api_req_retried"

\* the retry ask that takes a typed message for an approval
RetryDeclinedOnNo(r) == r = "noButtonTapped"

\* if (response !== "yesButtonTapped") throw
RetryDeclined(r) == r # "yesButtonTapped"

\* the api_req_failed ask returns: anything but approve throws "API request
\* failed"; approve says api_req_retried and calls attemptApiRequest again
AskFailedReturn ==
    /\ pc = "ask_failed"
    /\ askResponse # ""
    /\ askResponse' = ""
    /\ failedDeclined' = (failedDeclined \/ askResponse # "yesButtonTapped")
    /\ IF RetryDeclined(askResponse)
       THEN ThrowInTry /\ UNCHANGED claudeMessages
       ELSE IF abort
            THEN ThrowInTry /\ UNCHANGED claudeMessages
            ELSE /\ claudeMessages' = SayLog(claudeMessages, ApiReqRetried, 0)
                 /\ pc' = "api_call"
                 /\ UNCHANGED <<depth, didEndLoop>>
    /\ UNCHANGED <<config, protocol, abort, abortGhosts, requestCount, apiConversationHistory, userContent, locals,
                   callGhosts, responses, resumes, resumeGhosts, limitGhosts>>

\* the first for loop: every text block is collected and said
TextLoop ==
    /\ pc = "text_loop"
    /\ LET i == NextIndex({k \in idx..Len(response) : IsText(response[k])})
       IN IF i = 0
          THEN /\ pc' = "tool_loop"
               /\ idx' = 1
               /\ UNCHANGED <<claudeMessages, assistantResponses, depth, didEndLoop>>
          ELSE IF abort
               THEN ThrowInTry /\ UNCHANGED <<claudeMessages, assistantResponses, idx>>
               ELSE /\ assistantResponses' = Append(assistantResponses, response[i])
                    /\ claudeMessages' = SayLog(claudeMessages, "text", 0)
                    /\ idx' = i + 1
                    /\ UNCHANGED <<pc, depth, didEndLoop>>
    /\ UNCHANGED <<config, protocol, abort, abortGhosts, requestCount, apiConversationHistory, askResponse, userContent,
                   response, toolResults, attemptCompletionBlock, toolLog, inCompletion,
                   completionAnswer, effects, commandOutputAsk, lacking, callGhosts, responses, resumes, resumeGhosts, limitGhosts, failedDeclined>>

\* ----------------------------------------------------------- tool results
\* The code between two awaits of a tool is written as a chain of steps over a
\* record of the values it changes; thrown marks an exception on its way to the
\* catch of recursivelyMakeClaudeRequests, which skips the rest of the chain.
ToolStart(i) == <<"start", i>>
ToolEnd(i) == <<"end", i>>

Cur == [pc |-> pc, didEndLoop |-> didEndLoop, log |-> claudeMessages,
        toolResults |-> toolResults, toolLog |-> toolLog, idx |-> idx,
        askResponse |-> askResponse, inCompletion |-> inCompletion,
        completionAnswer |-> completionAnswer, effects |-> effects,
        commandOutputAsk |-> commandOutputAsk, lacking |-> lacking, thrown |-> FALSE]

Commit(c) ==
    /\ pc' = c.pc
    /\ didEndLoop' = c.didEndLoop
    /\ claudeMessages' = c.log
    /\ toolResults' = c.toolResults
    /\ toolLog' = c.toolLog
    /\ idx' = c.idx
    /\ askResponse' = c.askResponse
    /\ inCompletion' = c.inCompletion
    /\ completionAnswer' = c.completionAnswer
    /\ effects' = c.effects
    /\ commandOutputAsk' = c.commandOutputAsk
    /\ lacking' = c.lacking
    /\ UNCHANGED depth

\* the catch block of recursivelyMakeClaudeRequests
Throw(c) == [c EXCEPT !.thrown = TRUE, !.pc = "return", !.didEndLoop = TRUE]

\* say(type): throws when aborted, else appends the DisplayEvent
say(c, sub) ==
    IF c.thrown THEN c
    ELSE IF abort THEN Throw(c)
    ELSE [c EXCEPT !.log = SayLog(@, sub, 0)]

\* ask(type) up to its wait: throws when aborted, else clears the response
\* fields and appends the DisplayEvent; the caller resumes at waitPc
ask(c, sub, waitPc) ==
    IF c.thrown THEN c
    ELSE IF abort THEN Throw(c)
    ELSE [c EXCEPT !.askResponse = "", !.log = AskLog(@, sub), !.pc = waitPc]

\* the tool loop: toolResults.push of a non-completion tool's result
PushToolResult(c, r) ==
    IF c.thrown THEN c
    ELSE [c EXCEPT !.toolResults = Append(@, ToolResultBlock(response[c.idx].id, r)),
                   !.toolLog = Append(@, ToolEnd(response[c.idx].id)),
                   !.idx = @ + 1,
                   !.pc = "tool_loop"]

\* the completion that ends the loop whatever the result
PushCompletionResultEnds(c, r) ==
    IF c.thrown THEN c
    ELSE [c EXCEPT !.didEndLoop = TRUE,
                   !.toolResults = Append(@, ToolResultBlock(attemptCompletionBlock.id,
                                                 IF r = "" THEN "satisfied" ELSE r)),
                   !.toolLog = Append(@, ToolEnd(attemptCompletionBlock.id)),
                   !.pc = "after_tools"]

\* after executeTool(attempt_completion): the empty string ends the loop
PushCompletionResult(c, r) ==
    IF c.thrown THEN c
    ELSE [c EXCEPT !.didEndLoop = (r = ""),
                   !.toolResults = Append(@, ToolResultBlock(attemptCompletionBlock.id,
                                                 IF r = "" THEN "satisfied" ELSE r)),
                   !.toolLog = Append(@, ToolEnd(attemptCompletionBlock.id)),
                   !.pc = "after_tools"]

\* attemptCompletion from its completion_result ask on
AskCompletionResult(c) == ask(c, "completion_result", "completion_ask")

\* executeCommand returned r: to the tool loop, or to an attemptCompletion
\* that goes on to its ask whatever r is
CommandReturnsThenAsks(c, r) ==
    IF c.thrown THEN c
    ELSE IF c.inCompletion THEN AskCompletionResult(c) ELSE PushToolResult(c, r)

\* executeCommand returned r: to the tool loop, or to attemptCompletion, which
\* returns a non-empty r and goes on to its ask on the empty string
CommandReturns(c, r) ==
    IF c.thrown THEN c
    ELSE IF c.inCompletion
         THEN IF r # "" THEN PushCompletionResult(c, r) ELSE AskCompletionResult(c)
         ELSE PushToolResult(c, r)

\* executeCommand from its start to its first await
executeCommand(c, missing) ==
    IF missing
    THEN CommandReturns(say(c, "error"), "missing_param")
    ELSE ask(c, "command", "command_ask")

\* attemptCompletion from its start to its first await
attemptCompletion(c, missing, command) ==
    IF missing
    THEN PushCompletionResult(say(c, "error"), "missing_param")
    ELSE IF command
         THEN LET d == say(c, "completion_result")
              IN IF d.thrown THEN d ELSE [d EXCEPT !.inCompletion = TRUE, !.pc = "command_entry"]
         ELSE AskCompletionResult(c)

\* the tool_use id the running tool answers
CurrentToolId(c) == IF c.inCompletion THEN attemptCompletionBlock.id ELSE response[c.idx].id

\* an operation of the running tool on the file system or on a process
Effect(c, op) ==
    IF c.thrown THEN c ELSE [c EXCEPT !.effects = Append(@, <<op, CurrentToolId(c)>>)]

\* writeToFile from its start to its first await: the parameters, then inside
\* try the look at the file (fs.access, fs.readFile), the diff view and the ask;
\* the catch says the error and returns it
writeToFile(c, missing, fails) ==
    IF missing
    THEN PushToolResult(say(c, "error"), "missing_param")
    ELSE LET d == Effect(c, "read")
         IN IF fails THEN PushToolResult(say(d, "error"), "error")
            ELSE ask(d, "tool", "write_ask")

\* the read-only tools that never ask
AutoApprovedAlways(flag) == TRUE

\* if (this.alwaysAllowReadOnly), a field of revision B only
AutoApproved(flag) == version = "B" /\ flag

\* readFile, listFiles, listCodeDefinitionNames, searchFiles and their
\* namesakes of revision A, from the start to the first await: the parameters,
\* then inside try the read, and the say or the ask of the result
readOnlyTool(c, missing, fails) ==
    IF missing
    THEN PushToolResult(say(c, "error"), "missing_param")
    ELSE LET d == Effect(c, "read")
         IN IF fails THEN PushToolResult(say(d, "error"), "error")
            ELSE IF AutoApproved(alwaysAllowReadOnly)
                 THEN PushToolResult(say(d, "tool"), "content")
                 ELSE ask(d, "tool", "read_ask")

\* askFollowupQuestion from its start to its first await
askFollowupQuestion(c, missing) ==
    IF missing
    THEN PushToolResult(say(c, "error"), "missing_param")
    ELSE ask(c, "followup", "followup_ask")

\* the tools whose work on the file system can fail before their ask
FailureChoices(name) ==
    IF name \in ReadOnlyTools(version) \cup {"write_to_file"} THEN BOOLEAN ELSE {FALSE}

\* the tool that runs without looking at its parameters
executeToolUnchecked(c, name, missing, fails) ==
    IF name = "write_to_file" THEN writeToFile(c, FALSE, fails)
    ELSE IF name \in ReadOnlyTools(version) THEN readOnlyTool(c, FALSE, fails)
    ELSE IF name = "execute_command" THEN executeCommand(c, FALSE)
    ELSE IF name = "ask_followup_question" THEN askFollowupQuestion(c, FALSE)
    ELSE PushToolResult(c, "unknown_tool")

\* executeTool for the tools the tool loop runs at once
executeTool(c, name, missing, fails) ==
    IF name = "write_to_file" THEN writeToFile(c, missing, fails)
    ELSE IF name \in ReadOnlyTools(version) THEN readOnlyTool(c, missing, fails)
    ELSE IF name = "execute_command" THEN executeCommand(c, missing)
    ELSE IF name = "ask_followup_question" THEN askFollowupQuestion(c, missing)
    ELSE PushToolResult(c, "unknown_tool")

toolFrame == <<config, protocol, abort, abortGhosts, requestCount, apiConversationHistory,
               userContent, response, callGhosts, responses, resumes, resumeGhosts,
               limitGhosts, failedDeclined>>

\* the loop that takes the tool_use blocks from the end of the response
NextToolUseLast(content, from) ==
    findLastIndex({k \in from..Len(content) : IsToolUse(content[k])})

\* for (const contentBlock of response.content) if (contentBlock.type === "tool_use"):
\* the position of the next tool_use block, 0 when there is none
NextToolUse(content, from) ==
    NextIndex({k \in from..Len(content) : IsToolUse(content[k])})

\* the second for loop: the next tool_use block is collected; attempt_completion
\* is kept for later, any other tool is executed
ToolLoop ==
    /\ pc = "tool_loop"
    /\ LET i == NextToolUse(response, idx)
       IN IF i = 0
          THEN /\ Commit([Cur EXCEPT !.pc = "append_assistant"])
               /\ UNCHANGED <<assistantResponses, attemptCompletionBlock>>
          ELSE /\ assistantResponses' = Append(assistantResponses, response[i])
               /\ IF response[i].content = "attempt_completion"
                  THEN /\ attemptCompletionBlock' = response[i]
                       /\ Commit([Cur EXCEPT !.idx = i + 1])
                  ELSE /\ UNCHANGED attemptCompletionBlock
                       /\ \E missing \in BOOLEAN, fails \in FailureChoices(response[i].content) :
                             Commit(executeTool(
                                 [Cur EXCEPT !.idx = i, !.inCompletion = FALSE,
                                             !.toolLog = Append(@, ToolStart(response[i].id)),
                                             !.lacking = IF missing THEN @ \cup {response[i].id}
                                                         ELSE @],
                                 response[i].content, missing, fails))
    /\ UNCHANGED toolFrame

\* executeCommand of the demo command of attempt_completion
CommandEntry ==
    /\ pc = "command_entry"
    /\ Commit(executeCommand(Cur, FALSE))
    /\ UNCHANGED <<toolFrame, assistantResponses, attemptCompletionBlock>>

\* the gate that lets every answer through
ApprovedByAny(r) == TRUE

\* if (response !== "yesButtonTapped") of the approval asks
ApprovedBy(r) == r = "yesButtonTapped"

\* the command ask returns: approve starts the subprocess, a message is said as
\* user_feedback and returned as feedback, anything else is a denial
CommandAskReturn ==
    /\ pc = "command_ask"
    /\ askResponse # ""
    /\ LET c == [Cur EXCEPT !.askResponse = ""]
       IN Commit(IF ApprovedBy(askResponse)
                 THEN [Effect(c, "spawn") EXCEPT !.pc = "command_run"]
                 ELSE IF askResponse = "messageResponse"
                      THEN CommandReturns(say(c, "user_feedback"), "feedback")
                      ELSE CommandReturns(c, "denied"))
    /\ UNCHANGED <<toolFrame, assistantResponses, attemptCompletionBlock>>

\* SIGINT was sent to the process tree of the running command
SigintSent == \E k \in 1..Len(effects) : effects[k][1] = "treeKill"

\* how await subprocess ends: it resolves, or it rejects with an error whose
\* signal is SIGINT (only a process that was sent the signal), or with another
\* error; a process that was sent SIGINT may have ended before, or handle it
ProcessEnds == {"exit", "failed"} \cup (IF SigintSent THEN {"SIGINT"} ELSE {})


\* if ((e as ExecaError).signal === "SIGINT")
EndedBySigint(end) == end = "SIGINT"

\* the subprocess ends: its output is the result (the empty string for a demo
\* command), a failure is said as an error and returned as the error string
CommandRunDone ==
    /\ pc = "command_run"
    /\ \E end \in ProcessEnds :
          LET c == Effect([Cur EXCEPT !.commandOutputAsk = "", !.askResponse = ""], end)
          IN Commit(IF end = "exit"
                    THEN CommandReturns(c, IF inCompletion THEN "" ELSE "ok")
                    ELSE IF EndedBySigint(end)
                         THEN CommandReturns(say(c, "command_output"),
                                             IF inCompletion THEN "" ELSE "interrupted")
                         ELSE CommandReturns(say(c, "error"), "error"))
    /\ UNCHANGED <<toolFrame, assistantResponses, attemptCompletionBlock>>

\* the command_output asks of the running command in the display log
OutputAsks ==
    LET start == findLastIndex({k \in 1..Len(claudeMessages) :
                                   /\ claudeMessages[k].type = "ask"
                                   /\ claudeMessages[k].subtype = "command"})
    IN Cardinality({k \in (start + 1)..Len(claudeMessages) :
                       /\ claudeMessages[k].type = "ask"
                       /\ claudeMessages[k].subtype = "command_output"})

\* sendCommandOutput up to the wait of its ask; an exception of the ask is
\* caught and dropped. It is not awaited: the ask of an earlier call is
\* superseded
sendCommandOutput(c) ==
    IF abort THEN [c EXCEPT !.commandOutputAsk = "returned"]
    ELSE [c EXCEPT !.log = AskLog(@, "command_output"), !.askResponse = "",
                   !.commandOutputAsk = "wait"]

\* subprocess.stdout.on("data") of revision A
CommandOutput ==
    /\ pc = "command_run"
    /\ version = "A"
    /\ OutputAsks < MaxOutputAsks
    /\ Commit(sendCommandOutput(Cur))
    /\ UNCHANGED <<toolFrame, assistantResponses, attemptCompletionBlock>>

\* the command_output ask returns (revision A): approve sends SIGINT to the
\* process tree, any other answer goes to stdin and sendCommandOutput is
\* called again
CommandOutputAskReturn ==
    /\ pc = "command_run"
    /\ version = "A"
    /\ commandOutputAsk = "wait"
    /\ askResponse # ""
    /\ (askResponse # "yesButtonTapped" /\ ~abort) => OutputAsks < MaxOutputAsks
    /\ LET c == [Cur EXCEPT !.askResponse = ""]
       IN Commit(IF askResponse = "yesButtonTapped"
                 THEN [Effect(c, "treeKill") EXCEPT !.commandOutputAsk = "returned"]
                 ELSE sendCommandOutput(Effect(c, "stdin")))
    /\ UNCHANGED <<toolFrame, assistantResponses, attemptCompletionBlock>>

\* the write_to_file ask returns: approve writes the file (fs.mkdir,
\* fs.writeFile); a failure is said as an error and returned as the error string
WriteAskReturn ==
    /\ pc = "write_ask"
    /\ askResponse # ""
    /\ LET c == [Cur EXCEPT !.askResponse = ""]
       IN \E fails \in BOOLEAN :
             /\ fails => ApprovedBy(askResponse)
             /\ Commit(IF ApprovedBy(askResponse)
                       THEN LET d == Effect(c, "write")
                            IN IF fails THEN PushToolResult(say(d, "error"), "error")
                               ELSE PushToolResult(d, "written")
                       ELSE IF askResponse = "messageResponse"
                            THEN PushToolResult(say(c, "user_feedback"), "feedback")
                            ELSE PushToolResult(c, "denied"))
    /\ UNCHANGED <<toolFrame, assistantResponses, attemptCompletionBlock>>

\* the ask of a read-only tool returns: approve returns what was read
ReadAskReturn ==
    /\ pc = "read_ask"
    /\ askResponse # ""
    /\ LET c == [Cur EXCEPT !.askResponse = ""]
       IN Commit(IF ApprovedBy(askResponse)
                 THEN PushToolResult(c, "content")
                 ELSE IF askResponse = "messageResponse"
                      THEN PushToolResult(say(c, "user_feedback"), "feedback")
                      ELSE PushToolResult(c, "denied"))
    /\ UNCHANGED <<toolFrame, assistantResponses, attemptCompletionBlock>>

\* the followup ask returns: the answer is said as user_feedback and returned
FollowupAskReturn ==
    /\ pc = "followup_ask"
    /\ askResponse # ""
    /\ Commit(PushToolResult(say([Cur EXCEPT !.askResponse = ""], "user_feedback"), "answer"))
    /\ UNCHANGED <<toolFrame, assistantResponses, attemptCompletionBlock>>

\* updateAlwaysAllowReadOnly of revision B
updateAlwaysAllowReadOnly(b) ==
    /\ version = "B"
    /\ b # alwaysAllowReadOnly
    /\ alwaysAllowReadOnly' = b
    /\ UNCHANGED <<version, maxRequestsPerTask, limitUpdates, handler, listing, conversion, deliveries, protocol, abort, abortGhosts,
                   requestCount, apiConversationHistory, claudeMessages, askResponse, pc,
                   depth, userContent, locals, didEndLoop, callGhosts, responses, resumes,
                   resumeGhosts, limitGhosts, failedDeclined>>

\* after the loops: the assistant message is appended (a response without any
\* text or tool_use block is said as an error and replaced by a failure text)
AppendAssistant ==
    /\ pc = "append_assistant"
    /\ LET next == IF attemptCompletionBlock # <<>> THEN "completion" ELSE "after_tools"
       IN IF Len(assistantResponses) > 0
          THEN /\ apiConversationHistory' = addToApiConversationHistory(
                     apiConversationHistory, Message("assistant", assistantResponses))
               /\ Commit([Cur EXCEPT !.pc = next])
          ELSE LET c == say(Cur, "error")
               IN /\ Commit(IF c.thrown THEN c ELSE [c EXCEPT !.pc = next])
                  /\ apiConversationHistory' =
                        IF c.thrown THEN apiConversationHistory
                        ELSE addToApiConversationHistory(apiConversationHistory,
                                 Message("assistant", <<TextBlock("no_response_failure")>>))
    /\ UNCHANGED <<config, protocol, abort, abortGhosts, requestCount, userContent, response, assistantResponses,
                   attemptCompletionBlock, callGhosts, responses, resumes, resumeGhosts, limitGhosts,
                   failedDeclined>>

\* executeTool(attempt_completion), after the assistant message was appended
Completion ==
    /\ pc = "completion"
    /\ \E missing \in BOOLEAN, command \in BOOLEAN :
          Commit(attemptCompletion(
              [Cur EXCEPT !.toolLog = Append(@, ToolStart(attemptCompletionBlock.id)),
                          !.lacking = IF missing THEN @ \cup {attemptCompletionBlock.id} ELSE @],
              missing, command))
    /\ UNCHANGED <<toolFrame, assistantResponses, attemptCompletionBlock>>

\* the completion_result ask returns: approve is the empty result, anything
\* else is said as user_feedback and returned as feedback
CompletionAskReturn ==
    /\ pc = "completion_ask"
    /\ askResponse # ""
    /\ LET c == [Cur EXCEPT !.askResponse = "", !.completionAnswer = askResponse]
       IN Commit(IF askResponse = "yesButtonTapped"
                 THEN PushCompletionResult(c, "")
                 ELSE PushCompletionResult(say(c, "user_feedback"), "completion_feedback"))
    /\ UNCHANGED <<toolFrame, assistantResponses, attemptCompletionBlock>>

\* if (toolResults.length > 0): the loop ends with the results appended, or
\* goes on with them; without tool results the frame returns
AfterTools ==
    /\ pc = "after_tools"
    /\ IF Len(toolResults) > 0
       THEN IF didEndLoop
            THEN /\ apiConversationHistory' = addToApiConversationHistory(
                       apiConversationHistory, Message("user", toolResults))
                 /\ pc' = "closing"
            ELSE pc' = "recurse" /\ UNCHANGED apiConversationHistory
       ELSE pc' = "return" /\ UNCHANGED apiConversationHistory
    /\ UNCHANGED <<config, protocol, abort, abortGhosts, requestCount, claudeMessages, askResponse, depth, userContent,
                   locals, didEndLoop, callGhosts, responses, resumes, resumeGhosts, limitGhosts,
                   failedDeclined>>

\* the closing assistant message of a completed task
Closing ==
    /\ pc = "closing"
    /\ apiConversationHistory' = addToApiConversationHistory(apiConversationHistory,
           Message("assistant", <<TextBlock("pleased")>>))
    /\ pc' = "return"
    /\ UNCHANGED <<config, protocol, abort, abortGhosts, requestCount, claudeMessages, askResponse, depth, userContent,
                   locals, didEndLoop, callGhosts, responses, resumes, resumeGhosts, limitGhosts,
                   failedDeclined>>

\* the loop that breaks after its first turn
LoopBreaksAlways(d) == TRUE

\* initiateTaskLoop: if (didEndLoop) break
LoopBreaks(d) == d

\* a frame returns { didEndLoop }: to the frame that called it, which returns
\* the same, or to initiateTaskLoop, which breaks or goes on with the nudge
Return ==
    /\ pc = "return"
    /\ IF depth > 1
       THEN depth' = depth - 1 /\ UNCHANGED <<pc, userContent>>
       ELSE /\ depth' = 0
            /\ IF LoopBreaks(didEndLoop)
               THEN pc' = "done" /\ UNCHANGED userContent
               ELSE pc' = "loop_check" /\ userContent' = <<TextBlock("nudge")>>
    /\ UNCHANGED <<config, protocol, abort, abortGhosts, requestCount, apiConversationHistory, claudeMessages,
                   askResponse, locals, didEndLoop, callGhosts, responses, resumes, resumeGhosts,
                   limitGhosts, failedDeclined>>

abortTask ==
    /\ ~abort
    /\ abort' = TRUE
    /\ callsAtAbort' = apiCalls
    /\ historyAtAbort' = Len(apiConversationHistory)
    /\ UNCHANGED <<config, protocol, requestCount, apiConversationHistory, claudeMessages, askResponse,
                   pc, depth, userContent, locals, didEndLoop, callGhosts, responses, resumes, resumeGhosts,
                   limitGhosts, failedDeclined>>

updateMaxRequestsPerTask(n) ==
    /\ version = "A"
    /\ limitUpdates < MaxLimitUpdates
    /\ limitUpdates' = limitUpdates + 1
    /\ n # maxRequestsPerTask
    /\ maxRequestsPerTask' = n
    /\ UNCHANGED <<version, alwaysAllowReadOnly, handler, listing, conversion, deliveries, protocol, abort, abortGhosts, requestCount, apiConversationHistory, claudeMessages,
                   askResponse, pc, depth, userContent, locals, didEndLoop, callGhosts,
                   responses, resumes, resumeGhosts, limitGhosts, failedDeclined>>

\* -------------------------------------------------- resumeTaskFromHistory
\* the display log with its last api_req_started dropped when no
\* api_req_finished follows it, its trailing resume asks left in place
CleanedClaudeMessagesUntrimmed(log) ==
    LET lastApiReqStartedIndex ==
            findLastIndex({i \in 1..Len(log) : IsApiReqStarted(log[i])})
        lastApiReqFinishedIndex ==
            findLastIndex({i \in 1..Len(log) : IsApiReqFinished(log[i])})
    IN IF lastApiReqStartedIndex > lastApiReqFinishedIndex /\ lastApiReqStartedIndex # 0
       THEN RemoveAt(log, lastApiReqStartedIndex)
       ELSE log

\* the display log as resume cleans it: an api_req_started after the last
\* api_req_finished is dropped, then the trailing resume asks
CleanedClaudeMessages(log) ==
    LET lastApiReqStartedIndex ==
            findLastIndex({i \in 1..Len(log) : IsApiReqStarted(log[i])})
        lastApiReqFinishedIndex ==
            findLastIndex({i \in 1..Len(log) : IsApiReqFinished(log[i])})
        modified == IF lastApiReqStartedIndex > lastApiReqFinishedIndex
                       /\ lastApiReqStartedIndex # 0
                    THEN RemoveAt(log, lastApiReqStartedIndex)
                    ELSE log
        lastRelevantMessageIndex ==
            findLastIndex({i \in 1..Len(modified) : ~IsResumeMarker(modified[i])})
    IN IF lastRelevantMessageIndex # 0
       THEN SubSeq(modified, 1, lastRelevantMessageIndex)
       ELSE modified

\* resume_completed_task when the last entry that is no resume ask has the
\* subtype completion_result, be it an ask or a say
ResumeAskTypeOfSubtype(log) ==
    LET last == findLastIndex({i \in 1..Len(log) : ~IsResumeMarker(log[i])})
    IN IF last # 0 /\ log[last].subtype = "completion_result"
       THEN "resume_completed_task"
       ELSE "resume_task"

\* resume_completed_task when the last entry that is no resume ask is the
\* completion_result ask
ResumeAskType(log) ==
    LET last == findLastIndex({i \in 1..Len(log) : ~IsResumeMarker(log[i])})
    IN IF last # 0 /\ log[last].type = "ask" /\ log[last].subtype = "completion_result"
       THEN "resume_completed_task"
       ELSE "resume_task"

ToolUseBlocks(content) == SelectSeq(content, IsToolUse)
ToolResults(content) == SelectSeq(content, IsToolResult)
\* the reconciliation that takes every tool use for unanswered
HasResultForNone(results, i) == FALSE
\* the old user message has a tool_result for tool use i
HasResultFor(results, i) == \E k \in 1..Len(results) : results[k].id = i
Interrupted(b) == ToolResultBlock(b.id, "interrupted")
\* the placeholders with the last tool use left out
MapInterruptedFirst(blocks) == [k \in 1..Max(Len(blocks) - 1, 0) |-> Interrupted(blocks[k])]
\* a placeholder result for every tool use of blocks
MapInterrupted(blocks) == [k \in 1..Len(blocks) |-> Interrupted(blocks[k])]

\* the history resume keeps (the last message, when it is a user message, is
\* taken off to be sent again)
modifiedApiConversationHistory(existing) ==
    IF Last(existing).role = "assistant"
    THEN existing
    ELSE SubSeq(existing, 1, Len(existing) - 1)

\* the old user content with a placeholder result for every tool use that has
\* none
modifiedOldUserContent(existing) ==
    LET lastMessage == Last(existing)
    IN IF lastMessage.role = "assistant"
       THEN MapInterrupted(ToolUseBlocks(lastMessage.content))
       ELSE IF Len(existing) >= 2 /\ existing[Len(existing) - 1].role = "assistant"
            THEN LET toolUseBlocks == ToolUseBlocks(existing[Len(existing) - 1].content)
                     existingToolResults == ToolResults(lastMessage.content)
                     Missing(b) == ~HasResultFor(existingToolResults, b.id)
                 IN lastMessage.content \o MapInterrupted(SelectSeq(toolUseBlocks, Missing))
            ELSE lastMessage.content

\* the single text block of the resumption message
combinedText(old, hasNewText) ==
    LET hasOldText == \E k \in 1..Len(old) : IsText(old[k])
    IN TextBlock(IF hasOldText
                 THEN IF hasNewText THEN "resume_prev_new" ELSE "resume_prev"
                 ELSE IF hasNewText THEN "resume_new" ELSE "resume")

\* the combination that leaves the old text blocks in
combinedUserContentKeepsText(old, hasNewText) ==
    old \o <<combinedText(old, hasNewText)>>

\* the old blocks that are no text, then the one text block
combinedUserContent(old, hasNewText) ==
    SelectSeq(old, NotText) \o <<combinedText(old, hasNewText)>>

\* a new instance is built on the persisted task: resumeTaskFromHistory up to
\* the wait of its resume ask
ResumeTask ==
    /\ resumes < MaxResumes
    /\ Len(claudeMessages) > 0
    /\ resumes' = resumes + 1
    /\ LET cleaned == CleanedClaudeMessages(claudeMessages)
       IN claudeMessages' = AskLog(cleaned, ResumeAskType(cleaned))
    /\ abort' = FALSE
    /\ requestCount' = 0
    /\ askResponse' = ""
    /\ pc' = "resume_ask"
    /\ depth' = 0
    /\ userContent' = <<>>
    /\ response' = <<>>
    /\ idx' = 1
    /\ assistantResponses' = <<>>
    /\ toolResults' = <<>>
    /\ attemptCompletionBlock' = <<>>
    /\ toolLog' = <<>>
    /\ inCompletion' = FALSE
    /\ completionAnswer' = ""
    /\ effects' = <<>>
    /\ commandOutputAsk' = ""
    /\ lacking' = {}
    /\ turnCalls' = 0
    /\ didEndLoop' = FALSE
    /\ callFailed' = FALSE
    /\ limitAsked' = ""
    /\ limitDeclined' = FALSE
    /\ failedDeclined' = FALSE
    /\ UNCHANGED <<config, protocol, abortGhosts, resumeGhosts, apiConversationHistory,
                   apiCalls, toolUses, lastCallHistory, retryHistoryDiffers, responses,
                   limitAtCheck>>

\* the resume ask returns: the history is reconciled and overwritten, and the
\* task loop is started on the combined user content
ResumeAskReturn ==
    /\ pc = "resume_ask"
    /\ askResponse # ""
    /\ askResponse' = ""
    /\ \E hasNewText \in BOOLEAN :
          /\ (askResponse # "messageResponse") => ~hasNewText
          /\ IF (askResponse = "messageResponse" /\ abort) \/ Len(apiConversationHistory) = 0
             THEN /\ pc' = "rejected"
                  /\ UNCHANGED <<claudeMessages, apiConversationHistory, userContent,
                                 resumeGhosts>>
             ELSE /\ resumedFrom' = apiConversationHistory
                  /\ resumeFeedback' = hasNewText
                  /\ claudeMessages' = IF askResponse = "messageResponse"
                                       THEN SayLog(claudeMessages, "user_feedback", 0)
                                       ELSE claudeMessages
                  /\ apiConversationHistory' =
                         modifiedApiConversationHistory(apiConversationHistory)
                  /\ userContent' =
                         combinedUserContent(modifiedOldUserContent(apiConversationHistory),
                                             hasNewText)
                  /\ pc' = "loop_check"
    /\ UNCHANGED <<config, protocol, abort, abortGhosts, requestCount, depth, locals,
                   didEndLoop, callGhosts, responses, resumes, limitGhosts, failedDeclined>>

\* ------------------------------------------ ask and say, call by call
\* The task loop above takes ask and say as single steps. Here every call of
\* them is followed through its awaits: the save of the display log, and the
\* wait of ask. The callers are the task loop ("loop", one call at a time, a
\* command ask that is approved runs the command) and the stdout handler of
\* executeCommand ("stdout"), whose asks nobody awaits.
CallStates == {"mkdir", "write", "wait"}

ClaudeMessageAt(ts, t, sub, text) == [ts |-> ts, type |-> t, subtype |-> sub, text |-> text]

\* a call of ask or say: at is its position, aborted the flag as the call
\* found it, appended whether it added to the display log, snapshot the text
\* it hands to writeFile, response and lastTs what its wait ended on
Call(caller, kind, ts, at, wasAborted, didAppend) ==
    [caller |-> caller, kind |-> kind, ts |-> ts, at |-> at, aborted |-> wasAborted,
     appended |-> didAppend, snapshot |-> <<>>, response |-> "", lastTs |-> 0]

taskLoop == <<config, requestCount, apiConversationHistory, pc, depth, userContent, locals,
              didEndLoop, callGhosts, responses, resumes, resumeGhosts, limitGhosts,
              failedDeclined, abortGhosts>>

\* the calls that have not come back to their caller
Outstanding(caller) ==
    {i \in 1..Len(calls) : calls[i].caller = caller /\ calls[i].at \in CallStates}
\* the command the loop's approved ask has started
Running == {i \in 1..Len(calls) : calls[i].at = "running"}
LoopIdle == Outstanding("loop") = {} /\ Running = {}

\* ask and say without their abort check
AbortedNever(flag) == FALSE

\* the first statement of ask and of say
Aborted(flag) == flag

\* an ask that starts with the response it finds
ResponseAtEntryKept(kind, resp) == resp

\* ask resets askResponse and askResponseText before anything else; say
\* leaves them alone
ResponseAtEntry(kind, resp) == IF kind = "ask" THEN "" ELSE resp

\* ask and say up to their first await, called with the calls cs, the log and
\* the response as they stand: the abort check, the reset of the response
\* (ask), the timestamp, the push of addToClaudeMessages
EnterAskOrSay(caller, kind, sub, cs, log, resp, respText) ==
    IF Aborted(abort)
    THEN /\ claudeMessages' = log
         /\ calls' = Append(cs, Call(caller, kind, now, "aborted", abort,
                                     Len(claudeMessages') > Len(log)))
         /\ askResponse' = resp
         /\ askResponseText' = respText
         /\ UNCHANGED lastMessageTs
    ELSE /\ claudeMessages' = Append(log, ClaudeMessageAt(now, kind, sub, 0))
         /\ calls' = Append(cs, Call(caller, kind, now, "mkdir", abort,
                                     Len(claudeMessages') > Len(log)))
         /\ askResponse' = ResponseAtEntry(kind, resp)
         /\ askResponseText' = ResponseAtEntry(kind, respText)
         /\ lastMessageTs' = now

\* Date.now() moves on
Tick ==
    /\ now < MaxNow
    /\ now' = now + 1
    /\ UNCHANGED <<taskLoop, abort, askResponse, askResponseText, claudeMessages,
                   lastMessageTs, calls, savedClaudeMessages>>

\* the task loop calls ask("command"), in a run of at most n calls
LoopAskUpTo(n) ==
    /\ Len(calls) < n
    /\ LoopIdle
    /\ EnterAskOrSay("loop", "ask", "command", calls, claudeMessages, askResponse,
                     askResponseText)
    /\ UNCHANGED <<taskLoop, abort, now, savedClaudeMessages>>

LoopAsk == LoopAskUpTo(MaxCalls)

\* the task loop calls say
LoopSay ==
    /\ Len(calls) < MaxCalls
    /\ LoopIdle
    /\ EnterAskOrSay("loop", "say", "text", calls, claudeMessages, askResponse,
                     askResponseText)
    /\ UNCHANGED <<taskLoop, abort, now, savedClaudeMessages>>

\* subprocess.stdout.on("data"): sendCommandOutput is called and not awaited
StdoutDataUpTo(n) ==
    /\ Len(calls) < n
    /\ Running # {}
    /\ EnterAskOrSay("stdout", "ask", "command_output", calls, claudeMessages, askResponse,
                     askResponseText)
    /\ UNCHANGED <<taskLoop, abort, now, savedClaudeMessages>>

StdoutData == StdoutDataUpTo(MaxCalls)

\* the command ends (by itself or killed); executeCommand waits delay(100)
\* before it returns to the loop
ProcessExit ==
    /\ now < MaxNow
    /\ \E i \in Running : calls' = [calls EXCEPT ![i].at = "returned"]
    /\ now' = now + 1
    /\ UNCHANGED <<taskLoop, abort, askResponse, askResponseText, claudeMessages,
                   lastMessageTs, savedClaudeMessages>>

\* saveClaudeMessages after ensureTaskDirectoryExists: the log is serialised
\* as it stands and handed to writeFile
StartWrite(i) ==
    /\ i \in 1..Len(calls)
    /\ calls[i].at = "mkdir"
    /\ calls' = [calls EXCEPT ![i].at = "write", ![i].snapshot = claudeMessages]
    /\ UNCHANGED <<taskLoop, abort, askResponse, askResponseText, claudeMessages,
                   lastMessageTs, now, savedClaudeMessages>>

\* a writeFile completes; writes of the same file that overlap complete in
\* any order. say returns, ask goes on to wait
FinishWrite(i) ==
    /\ i \in 1..Len(calls)
    /\ calls[i].at = "write"
    /\ savedClaudeMessages' = calls[i].snapshot
    /\ calls' = [calls EXCEPT ![i].at = IF calls[i].kind = "ask" THEN "wait" ELSE "done",
                              ![i].snapshot = <<>>]
    /\ UNCHANGED <<taskLoop, abort, askResponse, askResponseText, claudeMessages,
                   lastMessageTs, now>>

\* the webview posts the user's answer to an ask it has been shown; a message
\* answer to a running command is text for its stdin or feedback
handleWebviewAskResponseText(r, text) ==
    /\ \E i \in 1..Len(calls) : calls[i].kind = "ask" /\ calls[i].at = "wait"
    /\ (r = "messageResponse") <=> (text # "")
    /\ askResponse' = r
    /\ askResponseText' = text
    /\ UNCHANGED <<taskLoop, abort, claudeMessages, lastMessageTs, now, calls,
                   savedClaudeMessages>>

\* handleWebviewAskResponse as the class has it: it stores the answer whether
\* or not an ask waits for one. deliveries notes how many calls of ask and
\* say had been made by then
handleWebviewAskResponseAnytime(r, text) ==
    /\ Len(deliveries) < MaxDeliveries
    /\ (r = "messageResponse") <=> (text # "")
    /\ askResponse' = r
    /\ askResponseText' = text
    /\ deliveries' = Append(deliveries, Len(calls))
    /\ UNCHANGED <<version, maxRequestsPerTask, limitUpdates, alwaysAllowReadOnly, handler,
                   listing, conversion, requestCount, apiConversationHistory, pc, depth, userContent,
                   locals, didEndLoop, callGhosts, responses, resumes, resumeGhosts,
                   limitGhosts, failedDeclined, abortGhosts, abort, claudeMessages,
                   lastMessageTs, now, calls, savedClaudeMessages>>

\* an ask that returns whatever response it finds
SupersededNever(askTs, last) == FALSE

\* the test after pWaitFor
Superseded(askTs, last) == last # askTs

\* sendCommandOutput calls itself again after an answer that goes to stdin:
\* revision A on every answer but approve, revision B on a message that is
\* stdin text
RelaysStdin(r, text) ==
    /\ r # "yesButtonTapped"
    /\ version = "B" => (r = "messageResponse" /\ text = "stdin")

\* revision B adds the stdin text to the last command_output ask of the log
\* in memory
EditForStdin(log) ==
    LET lastCommandOutput ==
            findLastIndex({k \in 1..Len(log) :
                              log[k].type = "ask" /\ log[k].subtype = "command_output"})
    IN IF version = "B" /\ lastCommandOutput # 0
       THEN [log EXCEPT ![lastCommandOutput].text = @ + 1]
       ELSE log

\* pWaitFor finds its condition true: the ask throws when a later message has
\* taken lastMessageTs, and returns the response otherwise. An approved
\* command ask starts the command; the stdout handler relays stdin and asks
\* again
AskPollUpTo(i, n) ==
    /\ i \in 1..Len(calls)
    /\ calls[i].at = "wait"
    /\ askResponse # "" \/ lastMessageTs # calls[i].ts
    /\ (calls[i].caller = "stdout" /\ RelaysStdin(askResponse, askResponseText))
          => Len(calls) < n
    /\ LET seen == [calls EXCEPT ![i].response = askResponse, ![i].lastTs = lastMessageTs]
       IN IF Superseded(calls[i].ts, lastMessageTs)
          THEN /\ calls' = [seen EXCEPT ![i].at = "ignored"]
               /\ UNCHANGED <<askResponse, askResponseText, claudeMessages, lastMessageTs>>
          ELSE IF calls[i].caller = "stdout" /\ RelaysStdin(askResponse, askResponseText)
               THEN EnterAskOrSay("stdout", "ask", "command_output",
                                  [seen EXCEPT ![i].at = "returned"],
                                  EditForStdin(claudeMessages), "", "")
               ELSE /\ calls' = [seen EXCEPT ![i].at =
                                    IF calls[i].caller = "loop" /\ askResponse = "yesButtonTapped"
                                    THEN "running" ELSE "returned"]
                    /\ askResponse' = ""
                    /\ askResponseText' = ""
                    /\ UNCHANGED <<claudeMessages, lastMessageTs>>
    /\ UNCHANGED <<taskLoop, abort, now, savedClaudeMessages>>

AskPoll(i) == AskPollUpTo(i, MaxCalls)

\* ------------------------------------------------------------------ system
\* the steps of the task loop both revisions share
LoopStep(maxCalls, shapes) ==
    \/ StartTask
    \/ EnterLoop
    \/ \E r \in AskResponses : handleWebviewAskResponse(r)
    \/ AttemptApiRequest(maxCalls)
    \/ ProviderResponds(shapes)
    \/ ProviderFails
    \/ AskFailedReturn
    \/ TextLoop
    \/ ToolLoop
    \/ AppendAssistant
    \/ AfterTools
    \/ Return

ToolStep ==
    \/ EnterRecursive
    \/ CommandEntry
    \/ CommandAskReturn
    \/ CommandRunDone
    \/ Completion
    \/ CompletionAskReturn
    \/ Closing

\* revision A, from a new task
Init == InitOf("A")

Next ==
    \/ LoopStep(MaxApiCalls, ResponseShapes)
    \/ ToolStep
    \/ LimitCheckA
    \/ AskLimitReturn
    \/ abortTask
    \/ \E n \in LimitValues : updateMaxRequestsPerTask(n)

Spec == Init /\ [][Next]_vars

\* revision A, from a new task that is interrupted and resumed
NextR ==
    \/ LoopStep(MaxApiCallsR, ResponseShapes)
    \/ ToolStep
    \/ LimitCheckA
    \/ AskLimitReturn
    \/ abortTask
    \/ ResumeTask
    \/ ResumeAskReturn

SpecR == Init /\ [][NextR]_vars

\* both revisions, from a new task, with a provider that uses every tool
InitT == \E v \in Versions : InitOf(v)

FileToolStep ==
    \/ WriteAskReturn
    \/ ReadAskReturn
    \/ FollowupAskReturn
    \/ CommandOutput
    \/ CommandOutputAskReturn

NextT ==
    \/ LoopStep(MaxApiCallsT, ToolShapesOf(version))
    \/ ToolStep
    \/ FileToolStep
    \/ LimitCheckA
    \/ AskLimitReturn
    \/ LimitCheckB
    \/ SayStartedB
    \/ abortTask
    \/ \E b \in BOOLEAN : updateAlwaysAllowReadOnly(b)

SpecT == InitT /\ [][NextT]_vars


\* ------------------------------------------ OpenRouterHandler.streamCompletion
\* text is a sequence of letters, so that += is \o; <<>> is the empty string
\* and undefined alike (both are falsy)
Undefined == -1
ToolCallIndices == {0, 1}
\* the deltas of a tool call: the first carries id and name, the others a
\* fragment of the arguments; a delta may come without index
ToolCallDeltas ==
    {[index |-> i, id |-> "call", name |-> "tool", arguments |-> <<>>] : i \in ToolCallIndices}
       \cup {[index |-> i, id |-> "", name |-> "", arguments |-> <<a>>] :
                i \in ToolCallIndices, a \in {"a", "b"}}
       \cup {[index |-> Undefined, id |-> "", name |-> "", arguments |-> <<"a">>]}
\* chunk.choices[0].delta
Chunks ==
    {[content |-> c, tool_calls |-> t] :
        c \in {<<>>, <<"t">>},
        t \in UNION {[1..n -> ToolCallDeltas] : n \in 0..MaxDeltas}}

\* the body of for (const toolCallDelta of delta.tool_calls), on the record
\* s of toolCalls and currentToolCall
ApplyToolCallDelta(s, d) ==
    IF d.index = Undefined THEN s
    ELSE LET isNew == s.currentToolCall = <<>> \/ s.currentToolCall.index # d.index
             pushed == IF isNew /\ s.currentToolCall # <<>>
                       THEN Append(s.toolCalls, s.currentToolCall)
                       ELSE s.toolCalls
             c0 == IF isNew
                   THEN [index |-> d.index, id |-> d.id, type |-> "function",
                         name |-> "", arguments |-> <<>>]
                   ELSE s.currentToolCall
             c1 == IF d.id # "" THEN [c0 EXCEPT !.id = d.id] ELSE c0
             c2 == IF d.name # "" THEN [c1 EXCEPT !.name = d.name] ELSE c1
             c3 == IF d.arguments # <<>>
                   THEN [c2 EXCEPT !.arguments = @ \o d.arguments]
                   ELSE c2
         IN [toolCalls |-> pushed, currentToolCall |-> c3]

\* for (const toolCallDelta of delta.tool_calls)
ApplyToolCallDeltas(s, ds) ==
    LET after[k \in 0..Len(ds)] ==
           IF k = 0 THEN s ELSE ApplyToolCallDelta(after[k - 1], ds[k])
    IN after[Len(ds)]

\* one round of for await (const chunk of stream)
NextChunk ==
    /\ chunkNo \in 1..Len(stream)
    /\ LET delta == stream[chunkNo]
           s == ApplyToolCallDeltas([toolCalls |-> toolCalls, currentToolCall |-> currentToolCall],
                                    delta.tool_calls)
       IN /\ textContent' = textContent \o delta.content
          /\ toolCalls' = s.toolCalls
          /\ currentToolCall' = s.currentToolCall
    /\ chunkNo' = chunkNo + 1
    /\ UNCHANGED <<stream, version, maxRequestsPerTask, limitUpdates, alwaysAllowReadOnly,
                   listing, conversion, deliveries, protocol, abort, abortGhosts, requestCount, apiConversationHistory,
                   claudeMessages, askResponse, pc, depth, userContent, locals, didEndLoop,
                   callGhosts, responses, resumes, resumeGhosts, limitGhosts, failedDeclined>>

\* the stream has ended: the tool call being built is the last one
EndOfStream ==
    /\ chunkNo = Len(stream) + 1
    /\ toolCalls' = IF currentToolCall # <<>> THEN Append(toolCalls, currentToolCall) ELSE toolCalls
    /\ currentToolCall' = <<>>
    /\ chunkNo' = chunkNo + 1
    /\ UNCHANGED <<stream, textContent, version, maxRequestsPerTask, limitUpdates,
                   alwaysAllowReadOnly, listing, conversion, deliveries, protocol, abort, abortGhosts, requestCount,
                   apiConversationHistory, claudeMessages, askResponse, pc, depth, userContent,
                   locals, didEndLoop, callGhosts, responses, resumes, resumeGhosts,
                   limitGhosts, failedDeclined>>

\* streamCompletion has returned
StreamCompleted == chunkNo = Len(stream) + 2

\* streamCompletion on every stream of the bounds
InitStream ==
    /\ InitTask("B")
    /\ InitListing
    /\ InitConversion
    /\ \E n \in 0..MaxChunks : stream \in [1..n -> Chunks]
    /\ chunkNo = 1
    /\ textContent = <<>>
    /\ toolCalls = <<>>
    /\ currentToolCall = <<>>

NextStream == NextChunk \/ EndOfStream

SpecStream == InitStream /\ [][NextStream]_vars


\* ------------------------------------------------- ClaudeDev.formatFilesList
\* A name is a stem and a number ("a", "A", "b", "f2", "f10"); a relative path
\* is the sequence of the names between its slashes, as split("/") gives them:
\* the path of a directory ends with "/", so its last part is the empty name,
\* and the listed directory itself is the empty path, one empty name.
Name(stem, num) == [stem |-> stem, num |-> num]
EmptyName == Name("", 0)
\* file names, two of which differ in case only; names of directories
FileNames == {Name("a", 0), Name("A", 0), Name("b", 0)}
DirNames == {Name("a", 0), Name("b", 0)}
Paths ==
    {<<n>> : n \in FileNames}
       \cup {<<d, EmptyName>> : d \in DirNames}
       \cup {<<d, n>> : d \in DirNames, n \in FileNames}
       \cup {<<d, e, EmptyName>> : d \in DirNames, e \in DirNames}
       \cup {<<EmptyName>>}
\* file.endsWith("/")
IsDir(p) == Len(p) > 1 /\ Last(p) = EmptyName

\* the listings whose order is examined: at most MaxFiles different paths in
\* any order, none of them a file under whose name another entry lies
SmallListings ==
    UNION {{f \in [1..n -> Paths] :
               \A i, j \in 1..n :
                  i # j => /\ f[i] # f[j]
                           /\ ~(~IsDir(f[i]) /\ Len(f[i]) < Len(f[j])
                                   /\ SubSeq(f[j], 1, Len(f[i])) = f[i])} : n \in 0..MaxFiles}
\* the listings around the limit: n numbered files, the highest number first
NumberedFiles(n) == [i \in 1..n |-> <<Name("f", n + 1 - i)>>]
LargeListings == {NumberedFiles(n) : n \in (ListFilesLimit - 1)..(ListFilesLimit + 1)}

\* the collation key of a stem under { sensitivity: "base" }
StemKey(stem) ==
    CASE stem = "" -> 0
      [] stem \in {"a", "A"} -> 1
      [] stem = "b" -> 2
      [] stem = "f" -> 3
Sign(a, b) == IF a < b THEN -1 ELSE IF a > b THEN 1 ELSE 0
\* x.localeCompare(y, undefined, { numeric: true, sensitivity: "base" }) on names
localeCompare(x, y) ==
    IF StemKey(x.stem) # StemKey(y.stem)
    THEN Sign(StemKey(x.stem), StemKey(y.stem))
    ELSE Sign(x.num, y.num)
\* the same on whole paths: the slash collates before every letter and digit
localeComparePaths(a, b) ==
    LET differ == {i \in 1..Len(a) : i <= Len(b) /\ localeCompare(a[i], b[i]) # 0}
    IN IF differ = {} THEN Sign(Len(a), Len(b))
       ELSE localeCompare(a[NextIndex(differ)], b[NextIndex(differ)])

\* the comparator of revision A: directories first, then localeCompare
compareA(a, b) ==
    IF IsDir(a) # IsDir(b)
    THEN (IF IsDir(a) THEN -1 ELSE 1)
    ELSE localeComparePaths(a, b)

\* the comparator of revision B: at the first part that differs, the path that
\* ends there comes first; otherwise localeCompare of the parts
compareB(a, b) ==
    LET differ == {i \in 1..Len(a) : i <= Len(b) /\ a[i] # b[i]}
        i == NextIndex(differ)
    IN IF differ = {} THEN Sign(Len(a), Len(b))
       ELSE IF i = Len(a) /\ i < Len(b) THEN -1
       ELSE IF i = Len(b) /\ i < Len(a) THEN 1
       ELSE localeCompare(a[i], b[i])

compare(v, a, b) == IF v = "A" THEN compareA(a, b) ELSE compareB(a, b)

\* Array.prototype.sort with the comparator of revision v: a stable sort
sort(v, list) ==
    LET n == Len(list)
        \* each position with the place its element takes
        places == {<<i, Cardinality({j \in 1..n :
                          \/ compare(v, list[j], list[i]) < 0
                          \/ compare(v, list[j], list[i]) = 0 /\ j <= i})>> : i \in 1..n}
    IN [k \in 1..n |-> list[(CHOOSE p \in places : p[2] = k)[1]]]

\* what formatFilesList returns: the lines of the list and the notice after them
FilesList(entries, notice, count) == [entries |-> entries, notice |-> notice, count |-> count]
formatFilesListA(list) ==
    LET sorted == sort("A", list)
    IN IF Len(sorted) > ListFilesLimit
       THEN FilesList(SubSeq(sorted, 1, ListFilesLimit), "truncated", Len(sorted) - ListFilesLimit)
       ELSE IF Len(sorted) = 0 \/ (Len(sorted) = 1 /\ sorted[1] = <<EmptyName>>)
            THEN FilesList(<<>>, "no files found", 0)
            ELSE FilesList(sorted, "", 0)
\* revision B with the test of revision A
formatFilesListBAbove(list) ==
    LET sorted == sort("B", list)
    IN IF Len(sorted) > ListFilesLimit
       THEN FilesList(SubSeq(sorted, 1, ListFilesLimit), "truncated", ListFilesLimit)
       ELSE IF Len(sorted) = 0 \/ (Len(sorted) = 1 /\ sorted[1] = <<EmptyName>>)
            THEN FilesList(<<>>, "no files found", 0)
            ELSE FilesList(sorted, "", 0)

formatFilesListB(list) ==
    LET sorted == sort("B", list)
    IN IF Len(sorted) >= ListFilesLimit
       THEN FilesList(SubSeq(sorted, 1, ListFilesLimit), "truncated", ListFilesLimit)
       ELSE IF Len(sorted) = 0 \/ (Len(sorted) = 1 /\ sorted[1] = <<EmptyName>>)
            THEN FilesList(<<>>, "no files found", 0)
            ELSE FilesList(sorted, "", 0)

formatFilesList ==
    /\ filesList = <<>>
    /\ filesList' = IF version = "A" THEN formatFilesListA(files) ELSE formatFilesListB(files)
    /\ UNCHANGED <<files, deliveries, conversion, version, maxRequestsPerTask, limitUpdates, alwaysAllowReadOnly, handler,
                   protocol, abort, abortGhosts, requestCount, apiConversationHistory,
                   claudeMessages, askResponse, pc, depth, userContent, locals, didEndLoop,
                   callGhosts, responses, resumes, resumeGhosts, limitGhosts, failedDeclined>>

\* formatFilesList of either revision on every listing of the bounds
InitFiles ==
    /\ \E v \in Versions : InitTask(v)
    /\ maxRequestsPerTask = 0
    /\ InitHandler
    /\ files \in SmallListings \cup LargeListings
    /\ filesList = <<>>
    /\ InitConversion

NextFiles == formatFilesList

SpecFiles == InitFiles /\ [][NextFiles]_vars

\* ------------------------------- OpenRouterHandler.convertToOpenAiMessages
ImageBlock == [type |-> "image", id |-> 0, content |-> "image"]

\* content that is a string and not an array of blocks
StringContent(t) == <<[type |-> "string", id |-> 0, content |-> t]>>

\* typeof content === "string"
IsStringContent(c) == Len(c) = 1 /\ c[1].type = "string"

\* the blocks of a content whose type is one of kinds, in their order
BlocksOf(c, kinds) == SelectSeq(c, LAMBDA b : b.type \in kinds)

\* the histories the class hands to createMessage, up to the second user
\* turn: the task as a string or as blocks, an assistant turn of an optional
\* text and at most MaxToolCalls tool uses, and a user turn that answers
\* every tool use with a result (a string, or a text and an image) and may
\* hold text or an image before the results and text after them
AssistantContents ==
    {pre \o [i \in 1..n |-> ToolUseBlock(i, "tool")] :
        pre \in {<<>>, <<TextBlock("assistant_text")>>}, n \in 0..MaxToolCalls} \ {<<>>}

ToolResultContents == {StringContent("result"), <<TextBlock("result"), ImageBlock>>}

UserContents(toolUses_) ==
    {pre \o [k \in 1..Len(toolUses_) |-> ToolResultBlock(toolUses_[k].id, r[k])] \o post :
        pre \in {<<>>, <<TextBlock("feedback")>>, <<ImageBlock>>},
        post \in {<<>>, <<TextBlock("details")>>},
        r \in [1..Len(toolUses_) -> ToolResultContents]} \ {<<>>}

CanonicalHistories ==
    LET first == {StringContent("task")} \cup UserContents(<<>>)
    IN {<<Message("user", u)>> : u \in first}
         \cup UNION {{<<Message("user", u), Message("assistant", a), Message("user", w)>> :
                         u \in first, w \in UserContents(BlocksOf(a, {"tool_use"}))} :
                     a \in AssistantContents}

OpenAiMessage(r, c, tcs, id) ==
    [role |-> r, content |-> c, tool_calls |-> tcs, tool_call_id |-> id]

\* a text or image block as a part of an OpenAI user message
ContentPart(b) ==
    IF b.type = "image" THEN [type |-> "image_url", content |-> b.content]
    ELSE [type |-> "text", content |-> b.content]

\* the content of a tool message: the string, or the parts of the array with
\* every image replaced by a reference (the join is kept as the list of its
\* pieces)
ToolMessageContent(c) ==
    IF IsStringContent(c) THEN <<c[1].content>>
    ELSE [k \in 1..Len(c) |->
            IF c[k].type = "image" THEN "(see following user message for image)"
            ELSE c[k].content]

\* toolResultImages after the forEach over toolMessages
ToolResultImages(toolMessages) ==
    LET images[k \in 0..Len(toolMessages)] ==
            IF k = 0 THEN <<>>
            ELSE images[k - 1] \o
                   (IF IsStringContent(toolMessages[k].content) THEN <<>>
                    ELSE BlocksOf(toolMessages[k].content, {"image"}))
    IN images[Len(toolMessages)]

\* the branch of a user message: the non-tool blocks as one user message,
\* then one tool message per tool_result, then the images of the results as
\* a user message
convertUserMessage(m) ==
    LET nonToolMessages == BlocksOf(m.content, {"text", "image"})
        toolMessages == BlocksOf(m.content, {"tool_result"})
        toolResultImages == ToolResultImages(toolMessages)
    IN (IF Len(nonToolMessages) > 0
        THEN <<OpenAiMessage("user", [k \in 1..Len(nonToolMessages) |->
                                         ContentPart(nonToolMessages[k])], <<>>, 0)>>
        ELSE <<>>)
       \o [k \in 1..Len(toolMessages) |->
              OpenAiMessage("tool", ToolMessageContent(toolMessages[k].content), <<>>,
                            toolMessages[k].id)]
       \o (IF Len(toolResultImages) > 0
           THEN <<OpenAiMessage("user", [k \in 1..Len(toolResultImages) |->
                                            ContentPart(toolResultImages[k])], <<>>, 0)>>
           ELSE <<>>)

\* the branch of an assistant message: one message with the joined text
\* (<<>> is undefined) and the tool calls (<<>> is undefined)
convertAssistantMessage(m) ==
    LET nonToolMessages == BlocksOf(m.content, {"text", "image"})
        toolMessages == BlocksOf(m.content, {"tool_use"})
    IN <<OpenAiMessage("assistant",
                       [k \in 1..Len(nonToolMessages) |->
                           IF nonToolMessages[k].type = "image" THEN ""
                           ELSE nonToolMessages[k].content],
                       [k \in 1..Len(toolMessages) |->
                           [id |-> toolMessages[k].id, name |-> toolMessages[k].content]],
                       0)>>

convertToOpenAiMessages(messages) ==
    LET converted[k \in 0..Len(messages)] ==
            IF k = 0 THEN <<>>
            ELSE converted[k - 1] \o
                   (IF IsStringContent(messages[k].content)
                    THEN <<OpenAiMessage(messages[k].role, <<messages[k].content[1].content>>,
                                         <<>>, 0)>>
                    ELSE IF messages[k].role = "user"
                         THEN convertUserMessage(messages[k])
                         ELSE convertAssistantMessage(messages[k]))
    IN converted[Len(messages)]

\* createMessage converts the history it was given
createMessage ==
    /\ anthropicMessages # <<>>
    /\ openAiMessages = <<>>
    /\ openAiMessages' = convertToOpenAiMessages(anthropicMessages)
    /\ UNCHANGED <<anthropicMessages, version, maxRequestsPerTask, limitUpdates,
                   alwaysAllowReadOnly, handler, listing, deliveries, protocol, abort,
                   abortGhosts, requestCount, apiConversationHistory, claudeMessages,
                   askResponse, pc, depth, userContent, locals, didEndLoop, callGhosts,
                   responses, resumes, resumeGhosts, limitGhosts, failedDeclined>>

\* convertToOpenAiMessages on every canonical history of the bounds
InitConvert ==
    /\ InitTask("B")
    /\ InitHandler
    /\ InitListing
    /\ anthropicMessages \in CanonicalHistories
    /\ openAiMessages = <<>>

NextConvert == createMessage

SpecConvert == InitConvert /\ [][NextConvert]_vars

\* revision B, from a new task, with a provider that answers in text
InitB == InitOf("B")

NextB ==
    \/ LoopStep(MaxApiCallsB, TextShapes)
    \/ LimitCheckB
    \/ SayStartedB

SpecB == InitB /\ [][NextB]_vars

\* ask and say of both revisions under the calls the class makes of them;
\* the program's own steps are taken when they stay possible
InitAsk == \E v \in Versions : InitOf(v) /\ maxRequestsPerTask = 0

ProgramStep == \E i \in 1..MaxCalls : StartWrite(i) \/ FinishWrite(i) \/ AskPoll(i)

NextAsk ==
    \/ Tick
    \/ LoopAsk
    \/ LoopSay
    \/ StdoutData
    \/ ProcessExit
    \/ \E r \in AskResponses, text \in {"", "stdin", "feedback"} :
          handleWebviewAskResponseText(r, text)
    \/ ProgramStep
    \/ abortTask

SpecAsk == InitAsk /\ [][NextAsk]_vars /\ WF_vars(ProgramStep)

\* ask and say of both revisions with answers that arrive at any time, also
\* when no ask waits for one
NextDeliver ==
    \/ Tick
    \/ LoopAsk
    \/ LoopSay
    \/ StdoutData
    \/ ProcessExit
    \/ \E r \in AskResponses, text \in {"", "stdin"} : handleWebviewAskResponseAnytime(r, text)
    \/ ProgramStep

SpecDeliver == InitAsk /\ [][NextDeliver]_vars

\* ask of revision A around one command: the command ask of the loop, the
\* asks of the command's output and of its stdin relay, and the next command
\* ask of the loop, while the task is not aborted
InitRelay == InitOf("A") /\ maxRequestsPerTask = 0

RelayStep ==
    \E i \in 1..MaxRelayCalls : StartWrite(i) \/ FinishWrite(i) \/ AskPollUpTo(i, MaxRelayCalls)

NextRelay ==
    \/ Tick
    \/ LoopAskUpTo(MaxRelayCalls)
    \/ StdoutDataUpTo(MaxRelayCalls)
    \/ ProcessExit
    \/ \E r \in AskResponses, text \in {"", "stdin"} : handleWebviewAskResponseText(r, text)
    \/ RelayStep

SpecRelay == InitRelay /\ [][NextRelay]_vars

\* -------------------------------------------------------------- properties
\* the positions of the tool_result blocks of message m that carry id i
ResultsFor(m, i) ==
    {k \in 1..Len(m.content) : IsToolResult(m.content[k]) /\ m.content[k].id = i}

HasToolUse(content) == \E k \in 1..Len(content) : IsToolUse(content[k])

\* m is a user message with exactly one tool_result for every tool_use id of a
Answers(m, a) ==
    /\ m.role = "user"
    /\ \A k \in 1..Len(a.content) :
          IsToolUse(a.content[k]) => Cardinality(ResultsFor(m, a.content[k].id)) = 1

\* every assistant message of h with tool_use blocks that has a successor is
\* answered by it
ToolUsesAnswered(h) ==
    \A k \in 1..(Len(h) - 1) :
        (h[k].role = "assistant" /\ HasToolUse(h[k].content)) => Answers(h[k + 1], h[k])

\* C1: in the task loop, the message appended after an assistant message with
\* tool_use blocks is a user message with exactly one tool_result for every
\* tool_use id of it, whatever the shape of the provider response (a turn that
\* abort or an exception interrupts appends nothing more).
C1_ToolUsesAnswered == ToolUsesAnswered(apiConversationHistory)

\* the resumption message: the user message whose last block is the combined text
IsResumption(m) ==
    /\ m.role = "user"
    /\ Len(m.content) > 0
    /\ Last(m.content) \in {combinedText(<<>>, n) : n \in BOOLEAN}
                            \cup {combinedText(<<TextBlock("task")>>, n) : n \in BOOLEAN}

\* C2: once resumeTaskFromHistory has reconciled a persisted history and the
\* loop has appended the resumption message, every assistant message with
\* tool_use blocks is followed by a user message with exactly one tool_result
\* per tool_use id.
C2_ResumedHistoryAnswered ==
    (resumes > 0 /\ Len(apiConversationHistory) > 0 /\ IsResumption(Last(apiConversationHistory)))
        => ToolUsesAnswered(apiConversationHistory)

\* the request-limit gate a started provider call has passed: the check of its
\* turn read a limit above the count, or asked and was answered approve
PassedLimitGate ==
    \/ limitAsked = "yes"
    \/ limitAsked = "" /\ requestCount < limitAtCheck

\* C3 as stated: a provider call is started only behind the gate, and never
\* while requestCount >= maxRequestsPerTask.
C3_NoCallAtLimit ==
    pc = "api_inflight" => (PassedLimitGate /\ requestCount < maxRequestsPerTask)

\* C3: a provider call is started only in a turn whose entry check found
\* requestCount below the limit it read, or whose request_limit_reached ask was
\* issued and answered approve before the call.
C3_CallBehindLimitGate == pc = "api_inflight" => PassedLimitGate

C3_LimitAskApprovedThenCall == pc = "api_inflight" /\ limitAsked = "yes" /\ responses > 0

\* the history ends with the turn's user content, appended once
TurnContentOnce(h, c) ==
    /\ Len(h) > 0
    /\ Last(h) = Message("user", c)
    /\ Len(h) > 1 => h[Len(h) - 1].role = "assistant"

\* C4: once the request_limit_reached ask of a turn is answered approve,
\* requestCount is 0 until the provider answers, the turn goes on to its provider
\* call (unless the task is aborted), and the call is made on the history that
\* ends with the turn's user content, appended once.
C4_ApprovedLimitAskProceeds ==
    limitAsked = "yes" =>
        /\ (turnCalls = 0 /\ ~abort) => pc = "api_call"
        /\ pc \in {"api_call", "api_inflight", "ask_failed"} =>
              /\ requestCount = 0
              /\ TurnContentOnce(apiConversationHistory, userContent)
        /\ pc = "api_inflight" => lastCallHistory = apiConversationHistory

C4_ApprovedAfterCountedRequest ==
    /\ limitAsked = "yes"
    /\ pc = "api_inflight"
    /\ responses > 0
    /\ requestCount = 0

\* C5: once a request_limit_reached ask is answered with anything but approve,
\* the history ends with the terminal assistant text, every frame returns
\* didEndLoop, initiateTaskLoop ends, and the task never stands in a provider
\* call again.
C5_DeclinedLimitAskEndsTask ==
    limitDeclined =>
        /\ pc \in {"return", "done"}
        /\ didEndLoop
        /\ pc = "done" <=> depth = 0
        /\ Last(apiConversationHistory) =
               Message("assistant", <<TextBlock("request_limit_failure")>>)

C5_DeclinedInNestedFrame ==
    /\ limitDeclined
    /\ pc = "done"
    /\ Len(apiConversationHistory) = 4
    /\ apiCalls = 1

\* ids of the tool_use blocks of a response, in response order: those executed
\* in the tool loop, and the attempt_completion blocks
IsCommandUse(b) == IsToolUse(b) /\ b.content # "attempt_completion"
IsCompletionUse(b) == IsToolUse(b) /\ b.content = "attempt_completion"
IdsOf(blocks) == [k \in 1..Len(blocks) |-> blocks[k].id]

\* C6: the tools of a provider response run one at a time (every start is
\* followed by the end of the same tool before the next start), the
\* non-completion tools in response order, and attempt_completion only after
\* every non-completion tool of the response has ended.
C6_ToolsRunInOrder ==
    LET n == Len(toolLog)
        commands == IdsOf(SelectSeq(response, IsCommandUse))
        completions == {response[k].id : k \in {j \in 1..Len(response) : IsCompletionUse(response[j])}}
    IN /\ \A k \in 1..n : toolLog[k][1] = (IF k % 2 = 1 THEN "start" ELSE "end")
       /\ \A k \in 1..n : (k % 2 = 0) => toolLog[k][2] = toolLog[k - 1][2]
       /\ \A j \in 1..((n + 1) \div 2) :
             IF j <= Len(commands)
             THEN toolLog[2 * j - 1][2] = commands[j]
             ELSE j = Len(commands) + 1 /\ toolLog[2 * j - 1][2] \in completions

C6_CompletionFirstRunsLast ==
    /\ Len(response) = 2
    /\ IsCompletionUse(response[1])
    /\ IsCommandUse(response[2])
    /\ toolLog = <<ToolStart(response[2].id), ToolEnd(response[2].id),
                   ToolStart(response[1].id), ToolEnd(response[1].id)>>

\* the states of a turn from its entry to the provider's answer
RequestStates == {"limit_check", "ask_limit", "api_call", "api_inflight", "ask_failed"}

\* C7: attempt_completion without a demo command.  Answered approve, the loop
\* ends: the tool results and then the closing assistant message are appended
\* and the task never stands in a provider call again.  Answered otherwise (and
\* not aborted), the feedback is the tool_result of the completion's tool_use
\* id, the loop does not end, the results are the next user message, and the
\* turn goes on to another provider request unless the request limit or a
\* failed call ends it.
C7_CompletionAnswerDecides ==
    (completionAnswer # "" /\ ~inCompletion) =>
        IF completionAnswer = "yesButtonTapped"
        THEN /\ didEndLoop
             /\ Last(toolResults) = ToolResultBlock(attemptCompletionBlock.id, "satisfied")
             /\ pc \in {"after_tools", "closing", "return", "done"}
             /\ pc = "closing" => Last(apiConversationHistory) = Message("user", toolResults)
             /\ pc \in {"return", "done"} =>
                   /\ Last(apiConversationHistory) = Message("assistant", <<TextBlock("pleased")>>)
                   /\ apiConversationHistory[Len(apiConversationHistory) - 1] =
                          Message("user", toolResults)
        ELSE \/ abort
             \/ /\ Last(toolResults) =
                       ToolResultBlock(attemptCompletionBlock.id, "completion_feedback")
                /\ pc \in {"after_tools", "recurse"} => ~didEndLoop
                /\ pc \in RequestStates =>
                       Last(apiConversationHistory) = Message("user", toolResults)
                /\ \/ pc \in {"after_tools", "recurse"} \cup RequestStates
                   \/ limitAsked = "no"
                   \/ failedDeclined

C7_FeedbackThenRequest ==
    /\ completionAnswer = "messageResponse"
    /\ ~inCompletion
    /\ pc = "api_inflight"
    /\ ~abort

\* C8: a provider response without tool_use does not end the loop: nothing is
\* appended after its assistant message until initiateTaskLoop appends the user
\* message made of the single nudge text, and the loop goes on to its next
\* request (the task ends only by abort, by a declined ask or by a completion).
C8_NoToolUseNudges ==
    /\ (pc = "after_tools" /\ ~HasToolUse(response)) =>
          /\ ~didEndLoop
          /\ toolResults = <<>>
    /\ (pc \in {"after_tools", "return", "loop_check"} /\ responses > 0 /\ ~didEndLoop
          /\ ~HasToolUse(response)) =>
          Last(apiConversationHistory).role = "assistant"
    /\ (pc = "done" /\ ~abort /\ ~failedDeclined /\ ~limitDeclined) => HasToolUse(response)
    /\ (pc = "loop_check" /\ responses > 0) => userContent = <<TextBlock("nudge")>>
    /\ (pc = "limit_check" /\ depth = 1 /\ responses > 0) =>
          Last(apiConversationHistory) = Message("user", <<TextBlock("nudge")>>)

C8_NudgedRequest ==
    /\ pc = "api_inflight"
    /\ responses = 1
    /\ ~HasToolUse(response)
    /\ Len(response) > 0
    /\ Last(apiConversationHistory) = Message("user", <<TextBlock("nudge")>>)

\* C9: after a provider call failed (and the task is not aborted) the
\* api_req_failed ask is pending, or it was answered approve and the retry is
\* about to be made, or the loop has ended; once the ask is answered with
\* anything but approve the loop ends and the task never stands in a provider
\* call again.
C9_FailedCallAsksAndDeclineIsFatal ==
    /\ callFailed =>
          \/ pc = "ask_failed" /\ Last(claudeMessages) = ClaudeMessage("ask", "api_req_failed", 0)
          \/ /\ pc = "api_call"
             /\ Last(claudeMessages) = ClaudeMessage("say", "api_req_retried", 0)
             /\ ~failedDeclined
          \/ pc \in {"return", "done"} /\ didEndLoop /\ (failedDeclined \/ abort)
    /\ failedDeclined => (pc \in {"return", "done"} /\ didEndLoop)

C9_DeclinedRetryEndsTask ==
    /\ failedDeclined
    /\ pc = "done"
    /\ ~abort
    /\ apiCalls = 1

\* C10: a retry that the user accepted after a failed provider call is made
\* with the conversation history of the failed call.
C10_RetryKeepsHistory == ~retryHistoryDiffers

\* the asks that have not come back to their caller
PendingAsk(i) == i <= Len(calls) /\ calls[i].kind = "ask" /\ calls[i].at \in CallStates

\* C11: an ask whose timestamp is no longer lastMessageTs when its wait ends
\* never returns a response: it ends with "Current ask promise was ignored",
\* also when a response had been delivered before it looked.
C11_SupersededAskIsIgnored ==
    \A i \in 1..Len(calls) :
        /\ calls[i].at \in {"returned", "running"} => calls[i].lastTs = calls[i].ts
        /\ (calls[i].at \in {"returned", "running", "ignored"}
              /\ calls[i].lastTs # calls[i].ts) => calls[i].at = "ignored"

C11_IgnoredWithResponseDelivered ==
    \E i \in 1..Len(calls) : calls[i].at = "ignored" /\ calls[i].response # ""

\* C12: at any time at most one ask waits for a response without being
\* superseded (its timestamp is lastMessageTs), also while the stdout handler
\* of execute_command asks without being awaited and relays stdin, and also
\* when asks are made at equal values of Date.now().
C12_OneAskPending ==
    Cardinality({i \in 1..Len(calls) :
                    /\ calls[i].kind = "ask"
                    /\ calls[i].at = "wait"
                    /\ calls[i].ts = lastMessageTs}) <= 1

\* C13: whenever no save of the display log is in flight, the persisted log
\* equals the log in memory, also when command_output asks overlap and when
\* an entry is edited for the stdin relay.
C13_SavedLogIsLog ==
    (\A i \in 1..Len(calls) : calls[i].at \notin {"mkdir", "write"})
        => savedClaudeMessages = claudeMessages

\* C14: a call of ask or say made after abortTask fails at once with the
\* aborted error and appends nothing to the display log.
C14_CallAfterAbortFails ==
    \A i \in 1..Len(calls) :
        calls[i].aborted => (calls[i].at = "aborted" /\ ~calls[i].appended)

C14_AskAndSayAfterAbort ==
    \E i, j \in 1..Len(calls) :
        /\ calls[i].aborted /\ calls[i].kind = "ask"
        /\ calls[j].aborted /\ calls[j].kind = "say"

\* C16: an ask that is pending when abortTask has been called is eventually
\* ended, whatever the user and the callers of ask and say do or do not do.
C16_AbortEndsPendingAsk ==
    \A i \in 1..MaxCalls : (abort /\ PendingAsk(i)) ~> ~PendingAsk(i)

\* C15: once abortTask has been called, nothing more is appended to the API
\* conversation history, at whatever point of a turn the abort arrives.
C15_NoAppendAfterAbort == abort => Len(apiConversationHistory) = historyAtAbort

\* C17: once abortTask has been called, no provider request is started,
\* whatever is answered to the asks that were pending.
C17_NoCallAfterAbort == abort => apiCalls = callsAtAbort

\* the resume has reconciled a persisted history that ends in a message of role r
Reconciled(r) == resumes > 0 /\ resumedFrom # <<>> /\ Last(resumedFrom).role = r

\* the text of the resumption prompt, given whether the interrupted user
\* message had text and whether the user typed new text
ResumptionPrompt(hadText, typed) ==
    TextBlock(IF hadText
              THEN IF typed THEN "resume_prev_new" ELSE "resume_prev"
              ELSE IF typed THEN "resume_new" ELSE "resume")

HadText(m) == m.role = "user" /\ \E k \in 1..Len(m.content) : IsText(m.content[k])

\* C18: when the persisted history ends in an assistant message with N >= 1
\* tool_use blocks, resume keeps the history as it is, and the first user
\* message appended after it holds N tool_result blocks, one per tool_use id
\* in order, each saying the call was interrupted, and then the resumption
\* prompt as its one text block.
C18_AssistantLastIsAnswered ==
    LET n == Len(resumedFrom)
        uses == ToolUseBlocks(Last(resumedFrom).content)
        m == apiConversationHistory[n + 1]
    IN (Reconciled("assistant") /\ Len(uses) >= 1 /\ Len(apiConversationHistory) > n)
          => /\ SubSeq(apiConversationHistory, 1, n) = resumedFrom
             /\ m.role = "user"
             /\ Len(m.content) = Len(uses) + 1
             /\ \A k \in 1..Len(uses) :
                   m.content[k] = ToolResultBlock(uses[k].id, "interrupted")
             /\ Last(m.content) = ResumptionPrompt(FALSE, resumeFeedback)

C18_TwoToolUsesInterrupted ==
    /\ Reconciled("assistant")
    /\ Len(ToolUseBlocks(Last(resumedFrom).content)) = 2
    /\ Len(apiConversationHistory) > Len(resumedFrom)

\* the persisted history ends in a user message that follows an assistant
\* message with tool_use blocks
UserLastAfterToolUse ==
    /\ Reconciled("user")
    /\ Len(resumedFrom) >= 2
    /\ resumedFrom[Len(resumedFrom) - 1].role = "assistant"
    /\ HasToolUse(resumedFrom[Len(resumedFrom) - 1].content)

\* C19: when the persisted history ends in a user message whose preceding
\* assistant message has tool_use blocks, resume takes that user message off
\* and sends it again in its place: with every tool_result it had, unchanged
\* and in order, and one interrupted placeholder for exactly the tool_use ids
\* that had none, so that every id has one result and the old message is not
\* in the history a second time.
C19_UserLastIsResent ==
    LET n == Len(resumedFrom)
        old == Last(resumedFrom)
        uses == ToolUseBlocks(resumedFrom[n - 1].content)
        m == apiConversationHistory[n]
        had == ToolResults(old.content)
        has == ToolResults(m.content)
    IN (UserLastAfterToolUse /\ Len(apiConversationHistory) >= n)
          => /\ SubSeq(apiConversationHistory, 1, n - 1) = SubSeq(resumedFrom, 1, n - 1)
             /\ m.role = "user"
             /\ Len(has) >= Len(had)
             /\ \A k \in 1..Len(had) : has[k] = had[k]
             /\ \A k \in (Len(had) + 1)..Len(has) :
                   /\ has[k].content = "interrupted"
                   /\ ResultsFor(old, has[k].id) = {}
                   /\ \E u \in 1..Len(uses) : uses[u].id = has[k].id
             /\ \A u \in 1..Len(uses) : Cardinality(ResultsFor(m, uses[u].id)) = 1
             /\ Len(apiConversationHistory) > n => apiConversationHistory[n + 1].role = "assistant"

C19_ResentWithPlaceholder ==
    /\ UserLastAfterToolUse
    /\ Len(apiConversationHistory) >= Len(resumedFrom)
    /\ Len(ToolResults(Last(resumedFrom).content)) = 1
    /\ Len(ToolResults(apiConversationHistory[Len(resumedFrom)].content)) = 2

\* resume has handed its user content to initiateTaskLoop, which has not yet
\* appended it
HandedToLoop ==
    /\ resumes > 0
    /\ resumedFrom # <<>>
    /\ pc = "loop_check"
    /\ Len(apiConversationHistory) <
          Len(resumedFrom) + (IF Last(resumedFrom).role = "assistant" THEN 1 ELSE 0)

\* C20: the user content a resume hands to the task loop holds exactly one
\* text block, and that block carries the text of the interrupted user message
\* when it had one and the new feedback when the user typed one.
C20_OneTextBlock ==
    HandedToLoop
        => /\ Cardinality({k \in 1..Len(userContent) : IsText(userContent[k])}) = 1
           /\ \E k \in 1..Len(userContent) :
                 userContent[k] = ResumptionPrompt(HadText(Last(resumedFrom)), resumeFeedback)

C20_OldTextAndNewFeedback ==
    HandedToLoop /\ HadText(Last(resumedFrom)) /\ resumeFeedback

\* the display log a resume found and cleaned, before its own resume ask
LogBeforeResumeAsk == SubSeq(claudeMessages, 1, Len(claudeMessages) - 1)

\* the api_req_started entries of a log that no api_req_finished follows
Orphans(log) ==
    {i \in 1..Len(log) : /\ IsApiReqStarted(log[i])
                         /\ \A j \in (i + 1)..Len(log) : ~IsApiReqFinished(log[j])}

\* C21: while a resumed task waits at its resume ask, the display log below
\* that ask holds no api_req_started without a later api_req_finished and
\* does not end with a resume ask, however often the task was resumed
C21_ResumedLogIsClean ==
    pc = "resume_ask" =>
       /\ Orphans(LogBeforeResumeAsk) = {}
       /\ Len(LogBeforeResumeAsk) > 0 => ~IsResumeMarker(Last(LogBeforeResumeAsk))

\* a second resume right behind the first, of a task whose only request was cut
\* off: the orphan and the first resume ask are both gone
C21_OrphanAndMarkerRemoved ==
    /\ pc = "resume_ask"
    /\ resumes = 2
    /\ apiCalls = 1
    /\ Cardinality({i \in 1..Len(claudeMessages) : IsResumeMarker(claudeMessages[i])}) = 1
    /\ {i \in 1..Len(claudeMessages) : IsApiReqStarted(claudeMessages[i])} = {}

\* the last entry of a log that is no resume ask is the completion_result ask
EndsWithCompletionAsk(log) ==
    LET last == findLastIndex({i \in 1..Len(log) : ~IsResumeMarker(log[i])})
    IN last # 0 /\ log[last].type = "ask" /\ log[last].subtype = "completion_result"

\* C22: the ask of a resumed task is resume_completed_task exactly when the
\* last entry of the display log that is no resume ask is an ask of subtype
\* completion_result, and resume_task otherwise
C22_ResumeAskFollowsLastEntry ==
    pc = "resume_ask" =>
       /\ Last(claudeMessages).type = "ask"
       /\ Last(claudeMessages).subtype =
             IF EndsWithCompletionAsk(LogBeforeResumeAsk)
             THEN "resume_completed_task" ELSE "resume_task"

\* a task resumed while its completion_result ask was open
C22_ResumedAtCompletionAsk ==
    /\ pc = "resume_ask"
    /\ EndsWithCompletionAsk(LogBeforeResumeAsk)
    /\ Last(claudeMessages).subtype = "resume_completed_task"

\* the calls of ask and say by the task loop that ended in an exception: such
\* a call is made by a tool outside any try block (the command ask of
\* executeCommand), so the exception leaves executeTool and reaches the catch
\* of recursivelyMakeClaudeRequests, which returns didEndLoop: true
ThrownToLoop == {i \in 1..Len(calls) : /\ calls[i].caller = "loop"
                                       /\ calls[i].at \in {"ignored", "aborted"}}

\* C26: while the task is not aborted no ask made by a tool ends in an
\* exception that reaches the catch of recursivelyMakeClaudeRequests and ends
\* the task loop
C26_NoToolExceptionEndsLoop == ~abort => ThrownToLoop = {}

\* the results executeCommand returns when the command was not run to a
\* successful end: denied, answered with feedback, failed
CommandFailures == {"denied", "feedback", "error"}

\* the display log from the completion_result say of the latest completion
\* with a demo command on (the empty log when there is none)
LogOfDemoCommand ==
    LET k == findLastIndex({i \in 1..Len(claudeMessages) :
                               /\ claudeMessages[i].type = "say"
                               /\ claudeMessages[i].subtype = "completion_result"})
    IN IF k = 0 THEN <<>> ELSE SubSeq(claudeMessages, k, Len(claudeMessages))

\* C27: when the demo command of attempt_completion was denied, answered with
\* feedback or failed, that result is the tool_result of the completion's
\* tool_use id, no completion_result ask is issued (none follows the user
\* feedback or the error of the demo command in the display log), the loop
\* does not end and the turn goes on to another provider request unless the
\* task is aborted, the request limit is declined or the call fails.
C27_FailedDemoCommandSkipsAsk ==
    /\ (/\ attemptCompletionBlock # <<>>
        /\ toolResults # <<>>
        /\ Last(toolResults).id = attemptCompletionBlock.id
        /\ Last(toolResults).content \in CommandFailures) =>
           /\ inCompletion
           /\ completionAnswer = ""
           /\ \A k \in 1..Len(LogOfDemoCommand) :
                  ~(LogOfDemoCommand[k].type = "ask"
                    /\ LogOfDemoCommand[k].subtype = "completion_result")
           /\ pc \in {"after_tools", "recurse"} => ~didEndLoop
           /\ \/ pc \in {"after_tools", "recurse"} \cup RequestStates
              \/ abort
              \/ limitAsked = "no"
              \/ failedDeclined
    /\ \A k \in 1..(Len(LogOfDemoCommand) - 3) :
           ~(/\ LogOfDemoCommand[k + 1].type = "ask"
             /\ LogOfDemoCommand[k + 1].subtype = "command"
             /\ LogOfDemoCommand[k + 2].type = "say"
             /\ LogOfDemoCommand[k + 2].subtype \in {"user_feedback", "error"}
             /\ LogOfDemoCommand[k + 3].type = "ask"
             /\ LogOfDemoCommand[k + 3].subtype = "completion_result")

\* a denied demo command, and the next provider request on its way with the
\* denial as the result of the completion
C27_DeniedDemoThenRequest ==
    /\ attemptCompletionBlock # <<>>
    /\ toolResults # <<>>
    /\ Last(toolResults) = ToolResultBlock(attemptCompletionBlock.id, "denied")
    /\ pc = "api_inflight"
    /\ Last(apiConversationHistory) = Message("user", toolResults)
    /\ ~abort

\* the result a step adds to toolResults (<<>> when it adds none)
NewResult ==
    IF Len(toolResults') = Len(toolResults) + 1 THEN Last(toolResults') ELSE <<>>

\* C23: a tool call that lacks a required parameter (and is not cut off by an
\* abort) appends one error say and nothing else to the display log, issues no
\* ask, does nothing to files or processes, returns the missing-parameter
\* string as the tool_result of its tool_use id, and leaves the loop running
C23_MissingParameterShortCircuits ==
    [][\A id \in lacking' \ lacking :
          \/ abort
          \/ /\ claudeMessages' = SayLog(claudeMessages, "error", 0)
             /\ askResponse' = askResponse
             /\ effects' = effects
             /\ toolResults' = Append(toolResults, ToolResultBlock(id, "missing_param"))
             /\ pc' \in {"tool_loop", "after_tools"}
             /\ ~didEndLoop']_vars

\* a write_to_file without its parameters, and the next provider request on
\* its way with the missing-parameter result
C23_MissingThenRequest ==
    /\ Len(response) = 1
    /\ response[1].content = "write_to_file"
    /\ response[1].id \in lacking
    /\ toolResults = <<ToolResultBlock(response[1].id, "missing_param")>>
    /\ effects = <<>>
    /\ pc = "api_inflight"
    /\ Last(apiConversationHistory) = Message("user", toolResults)
    /\ ~abort

\* C24: a step writes a file or spawns a process only as the return of the
\* tool's own approval ask answered approve; the return of that ask answered
\* otherwise does nothing to files or processes and (unless the task is
\* aborted) makes the denial or the feedback the tool_result of the tool, in
\* both revisions and whatever alwaysAllowReadOnly is
C24_ChangesOnlyAfterApproval ==
    [][/\ (\E k \in (Len(effects) + 1)..Len(effects') : effects'[k][1] \in {"write", "spawn"})
             => /\ pc \in {"write_ask", "command_ask"}
                /\ askResponse = "yesButtonTapped"
       /\ (pc \in {"write_ask", "command_ask"} /\ pc' # pc
              /\ askResponse \in {"noButtonTapped", "messageResponse"})
             => /\ effects' = effects
                /\ \/ abort
                   \/ /\ NewResult # <<>>
                      /\ NewResult.id = CurrentToolId(Cur)
                      /\ NewResult.content =
                            IF askResponse = "messageResponse" THEN "feedback" ELSE "denied"]_vars

\* revision B with auto-approve enabled: an approved command has run, the
\* write_to_file after it was rejected and wrote nothing
C24_SpawnedThenWriteDenied ==
    /\ version = "B"
    /\ alwaysAllowReadOnly
    /\ Len(response) = 2
    /\ response[2].content = "write_to_file"
    /\ toolResults = <<ToolResultBlock(response[1].id, "ok"),
                       ToolResultBlock(response[2].id, "denied")>>
    /\ \E k \in 1..Len(effects) : effects[k] = <<"spawn", response[1].id>>
    /\ \A k \in 1..Len(effects) : effects[k][1] # "write"

\* the tool loop starts a read-only tool in this step
StartsReadOnlyTool ==
    /\ pc = "tool_loop"
    /\ Len(toolLog') > Len(toolLog)
    /\ NextToolUse(response, idx) # 0
    /\ response[NextToolUse(response, idx)].content \in ReadOnlyTools(version)

\* what was read is returned only by the return of the tool's ask answered
\* approve, or with auto-approve enabled
ContentOnlyApproved ==
    (NewResult # <<>> /\ NewResult.content = "content") =>
       \/ pc = "read_ask" /\ askResponse = "yesButtonTapped"
       \/ pc = "tool_loop" /\ version = "B" /\ alwaysAllowReadOnly

\* C25 as stated: with auto-approve enabled every call of a read-only tool
\* issues no ask, says tool once and returns what it read; with it disabled
\* what was read is returned only after the ask was answered approve
C25_AutoApprovedSaysToolOnce ==
    [][/\ (StartsReadOnlyTool /\ version = "B" /\ alwaysAllowReadOnly /\ ~abort)
             => /\ pc' = "tool_loop"
                /\ askResponse' = askResponse
                /\ claudeMessages' = SayLog(claudeMessages, "tool", 0)
                /\ NewResult # <<>>
                /\ NewResult.content = "content"
       /\ ContentOnlyApproved]_vars

\* C25: with auto-approve enabled a call of a read-only tool issues no ask and
\* returns in the same step: with its parameters and a read that succeeds it
\* says tool once and returns what it read; lacking a parameter, or when the
\* read fails, it says one error and returns the error string. What was read
\* is returned only after the ask was answered approve when the mode is off.
C25_AutoApprovedNeverAsks ==
    [][/\ (StartsReadOnlyTool /\ version = "B" /\ alwaysAllowReadOnly /\ ~abort)
             => /\ pc' = "tool_loop"
                /\ askResponse' = askResponse
                /\ NewResult # <<>>
                /\ NewResult.id = response[NextToolUse(response, idx)].id
                /\ IF NewResult.id \in lacking'
                   THEN /\ NewResult.content = "missing_param"
                        /\ claudeMessages' = SayLog(claudeMessages, "error", 0)
                   ELSE \/ /\ NewResult.content = "content"
                           /\ claudeMessages' = SayLog(claudeMessages, "tool", 0)
                        \/ /\ NewResult.content = "error"
                           /\ claudeMessages' = SayLog(claudeMessages, "error", 0)
       /\ ContentOnlyApproved]_vars

\* search_files of revision B with auto-approve enabled: the say and the
\* result, without any ask
C25_SearchAutoApproved ==
    /\ version = "B"
    /\ alwaysAllowReadOnly
    /\ Len(response) = 1
    /\ response[1].content = "search_files"
    /\ toolResults = <<ToolResultBlock(response[1].id, "content")>>
    /\ Last(claudeMessages) = ClaudeMessage("say", "tool", 0)
    /\ pc = "tool_loop"

\* the running command ends in this step, after the user's approve of a
\* command_output ask sent SIGINT to its process tree; not a demo command
EndsAfterTreeKill ==
    /\ pc = "command_run"
    /\ pc' # "command_run"
    /\ ~inCompletion
    /\ ~abort
    /\ \E k \in 1..Len(effects) : effects[k] = <<"treeKill", CurrentToolId(Cur)>>

\* the approve of a command_output ask sends SIGINT to the process tree
\* (in a task that is not aborted, where no later ask replaces the answered one)
ApproveSendsSigint ==
    (pc = "command_run" /\ commandOutputAsk = "wait" /\ pc' = pc /\ ~abort
       /\ commandOutputAsk' = "returned" /\ askResponse = "yesButtonTapped")
      => effects' = Append(effects, <<"treeKill", CurrentToolId(Cur)>>)

\* C28 as stated: after the user's approve of a command_output ask the
\* command returns its output with the user-terminated note, and the tool loop
\* goes on
C28_InterruptReturnsNote ==
    [][/\ ApproveSendsSigint
       /\ EndsAfterTreeKill =>
             /\ NewResult = ToolResultBlock(CurrentToolId(Cur), "interrupted")
             /\ pc' = "tool_loop"]_vars

\* the total recorded in the latest api_req_finished entry of the display log
\* (-1 when there is none)
LastRecordedTotal ==
    LET fins == {i \in 1..Len(claudeMessages) : IsApiReqFinished(claudeMessages[i])}
    IN IF fins = {} THEN -1
       ELSE claudeMessages[CHOOSE i \in fins : \A j \in fins : j <= i].total

\* attemptApiRequest of revision B starts a provider call in this step
StartsCallB == version = "B" /\ pc = "api_call" /\ pc' = "api_inflight"

\* C29 as stated: the history is truncated before a provider request exactly
\* when the latest recorded token total exceeds the high-water mark
C29_TruncatesAboveMark ==
    [][StartsCallB =>
          apiConversationHistory' =
             IF LastRecordedTotal > Max(ContextWindow - ContextReserve, (ContextWindow * 8) \div 10)
             THEN truncateHalfConversation(apiConversationHistory)
             ELSE apiConversationHistory]_vars

\* C29: the history is truncated before a provider request exactly when the
\* latest recorded token total is at the high-water mark
\* max(contextWindow - 40000, 80% of contextWindow) or above it; without a
\* recorded total nothing is truncated
C29_TruncatesAtMarkOrAbove ==
    [][StartsCallB =>
          apiConversationHistory' =
             IF LastRecordedTotal >= Max(ContextWindow - ContextReserve, (ContextWindow * 8) \div 10)
             THEN truncateHalfConversation(apiConversationHistory)
             ELSE apiConversationHistory]_vars

\* a request on its way with a history that lost messages, after a response
\* that reported exactly the high-water mark and none that reported more
C29_TruncatedAtMark ==
    /\ version = "B"
    /\ pc = "api_inflight"
    /\ LastRecordedTotal = 160000
    /\ \A i \in 1..Len(claudeMessages) :
          IsApiReqFinished(claudeMessages[i]) => claudeMessages[i].total <= 160000
    /\ Cardinality({i \in 1..Len(claudeMessages) :
                       IsApiReqFinished(claudeMessages[i]) /\ claudeMessages[i].total = 160000}) = 1
    /\ Cardinality({i \in 1..Len(apiConversationHistory) : apiConversationHistory[i].role = "assistant"})
          < Cardinality({i \in 1..Len(claudeMessages) : IsApiReqFinished(claudeMessages[i])})

\* the tool-call deltas of the stream that carry an index, in arrival order
IndexedDeltas ==
    LET upTo[k \in 0..Len(stream)] ==
           IF k = 0 THEN <<>> ELSE upTo[k - 1] \o stream[k].tool_calls
    IN SelectSeq(upTo[Len(stream)], LAMBDA d : d.index # Undefined)
\* the positions at which an index is seen for the first time
FirstSeen ==
    {k \in 1..Len(IndexedDeltas) :
        \A j \in 1..(k - 1) : IndexedDeltas[j].index # IndexedDeltas[k].index}
\* the index that is the k-th to be seen for the first time
KthIndex(k) ==
    IndexedDeltas[CHOOSE f \in FirstSeen : Cardinality({g \in FirstSeen : g <= f}) = k].index
\* the fragments of index i, concatenated in arrival order
ArgumentsOf(i) ==
    LET upTo[k \in 0..Len(IndexedDeltas)] ==
           IF k = 0 THEN <<>>
           ELSE upTo[k - 1] \o (IF IndexedDeltas[k].index = i
                                THEN IndexedDeltas[k].arguments ELSE <<>>)
    IN upTo[Len(IndexedDeltas)]

\* C30: streamCompletion returns one tool call per distinct fragment index, in
\* the order in which the indices were first seen, each with the concatenation
\* of the fragments of its index in arrival order
C30_OneToolCallPerIndex ==
    StreamCompleted =>
       /\ Len(toolCalls) = Cardinality(FirstSeen)
       /\ \A k \in 1..Len(toolCalls) :
             /\ toolCalls[k].index = KthIndex(k)
             /\ toolCalls[k].arguments = ArgumentsOf(toolCalls[k].index)

\* C31: the assistant message that the task loop appends to the API
\* conversation history holds the text and tool_use blocks of the provider
\* response in the order of the response
C31_AssistantTurnKeepsOrder ==
    [][(pc = "append_assistant" /\ Len(assistantResponses) > 0
          /\ Len(apiConversationHistory') = Len(apiConversationHistory) + 1)
         => Last(apiConversationHistory') = Message("assistant", response)]_vars

\* the directory an entry lies in, and the name it has there
ParentOf(p) == IF IsDir(p) THEN SubSeq(p, 1, Len(p) - 2) ELSE SubSeq(p, 1, Len(p) - 1)
NameOf(p) == IF IsDir(p) THEN p[Len(p) - 1] ELSE p[Len(p)]

\* C32: in the list formatFilesList returns, a directory comes before every
\* file of the same parent directory, and entries of the same kind and parent
\* are in numeric-aware, case-insensitive alphabetical order
C32_DirectoriesBeforeFiles ==
    filesList # <<>> =>
       \A i, j \in 1..Len(filesList.entries) :
          LET a == filesList.entries[i]
              b == filesList.entries[j]
          IN (i < j /\ ParentOf(a) = ParentOf(b)) =>
                /\ ~(IsDir(b) /\ ~IsDir(a))
                /\ IsDir(a) = IsDir(b) =>
                      (  StemKey(NameOf(a).stem) < StemKey(NameOf(b).stem)
                      \/ (StemKey(NameOf(a).stem) = StemKey(NameOf(b).stem)
                            /\ NameOf(a).num <= NameOf(b).num))

\* the entries are in the order of the revision's comparator
InOrder(entries) ==
    \A k \in 1..(Len(entries) - 1) : compare(version, entries[k], entries[k + 1]) <= 0
\* the entries are n of the files, and no file left out comes before one of them
FirstOf(entries, n) ==
    /\ Len(entries) = n
    /\ InOrder(entries)
    /\ \A k \in 1..n : \E i \in 1..Len(files) : files[i] = entries[k]
    /\ \A i \in 1..Len(files) :
          (\A k \in 1..n : entries[k] # files[i]) =>
             compare(version, entries[n], files[i]) <= 0

\* C33 as stated: no entry gives the fixed message, 1 to 1000 entries are all
\* returned without a notice, more than 1000 are cut to the first 1000 of the
\* sorted list, followed by a truncation notice
C33_ListFilesBoundaries ==
    filesList # <<>> =>
       IF Len(files) = 0
       THEN filesList.notice = "no files found" /\ filesList.entries = <<>>
       ELSE IF Len(files) <= 1000
            THEN filesList.notice = "" /\ FirstOf(filesList.entries, Len(files))
            ELSE filesList.notice = "truncated" /\ FirstOf(filesList.entries, 1000)

\* the listing is empty, or its only entry is the listed directory itself
NothingListed == Len(files) = 0 \/ files = <<(<<EmptyName>>)>>

\* C33: nothing listed gives the fixed message; revision A cuts a list of more
\* than 1000 entries to the first 1000 of the sorted list and adds the notice
\* with the number left out, revision B does so from 1000 entries on; every
\* other list is returned whole, sorted, without a notice
C33_ListFilesBoundariesByRevision ==
    filesList # <<>> =>
       IF (version = "A" /\ Len(files) > 1000) \/ (version = "B" /\ Len(files) >= 1000)
       THEN /\ filesList.notice = "truncated"
            /\ FirstOf(filesList.entries, 1000)
            /\ filesList.count = IF version = "A" THEN Len(files) - 1000 ELSE 1000
       ELSE IF NothingListed
            THEN filesList.notice = "no files found" /\ filesList.entries = <<>>
            ELSE filesList.notice = "" /\ FirstOf(filesList.entries, Len(files))

\* revision B was given exactly 1000 entries and has added the notice
C33_NoticeAtTheLimit ==
    /\ version = "B"
    /\ Len(files) = 1000
    /\ filesList # <<>>
    /\ filesList.notice = "truncated"
    /\ Len(filesList.entries) = 1000


\* C34: in every reachable state the API conversation history, when it is
\* not empty, starts with a user message and no two neighbouring messages
\* have the same role.
C34_RolesAlternate ==
    /\ Len(apiConversationHistory) > 0
         => apiConversationHistory[1].role = "user"
    /\ \A i \in 1..(Len(apiConversationHistory) - 1) :
          apiConversationHistory[i].role # apiConversationHistory[i + 1].role


\* C35: a response delivered while an ask is pending (its timestamp is still
\* lastMessageTs) is returned by that ask: in no step does the response go
\* away, or the ask stop being the latest, other than by that ask returning it.
C35_DeliveredResponseIsReturned ==
    [][\A i \in 1..Len(calls) :
          (calls[i].kind = "ask" /\ calls[i].at = "wait" /\ calls[i].ts = lastMessageTs
             /\ askResponse # "")
          => \/ calls'[i].at \in {"returned", "running"} /\ calls'[i].response = askResponse
             \/ calls'[i].at = "wait" /\ calls'[i].ts = lastMessageTs' /\ askResponse' # ""]_vars

\* C36: an ask returns only a response that was delivered after the ask
\* began; a response delivered while no ask is pending is returned by no
\* later ask.
C36_ReturnsOnlyLaterResponse ==
    [][\A i \in 1..Len(calls) :
          (calls[i].at = "wait" /\ calls'[i].at \in {"returned", "running"})
          => /\ calls'[i].response = askResponse
             /\ askResponse # ""
             /\ Len(deliveries) > 0
             /\ Last(deliveries) >= i]_vars

C36_ReturnedAfterStrayResponse ==
    /\ Len(calls) > 0
    /\ calls[1].kind = "ask"
    /\ calls[1].at \in {"returned", "running"}
    /\ Len(deliveries) > 1
    /\ deliveries[1] = 0


\* C37: once abortTask has been called, no tool writes a file and no command
\* is spawned, also when the approval ask that was pending at the abort is
\* answered afterwards.
C37_NoEffectAfterAbort ==
    [][abort => \A k \in (Len(effects) + 1)..Len(effects') :
                   effects'[k][1] \notin {"write", "spawn"}]_vars


\* C38: while the limit is the one the task started with and is at least 1,
\* requestCount never exceeds maxRequestsPerTask, and requestCount counts the
\* provider responses since the start or the last accepted reset: a response
\* adds one, an approved request_limit_reached ask sets it to 0, and nothing
\* else (a failed call, a retry prompt) changes it.
C38_RequestCountWithinLimit ==
    /\ []((limitUpdates = 0 /\ maxRequestsPerTask >= 1)
            => requestCount <= maxRequestsPerTask)
    /\ [][IF responses' = responses + 1
          THEN requestCount' = requestCount + 1
          ELSE \/ requestCount' = requestCount
               \/ /\ pc = "ask_limit"
                  /\ askResponse = "yesButtonTapped"
                  /\ requestCount' = 0]_vars

C38_CountedAgainAfterReset ==
    /\ limitUpdates = 0
    /\ maxRequestsPerTask = 1
    /\ responses = 2
    /\ requestCount = 1
    /\ limitAsked = "yes"


\* the api_req_started and api_req_finished entries of the display log
ApiReqEntries == SelectSeq(claudeMessages, LAMBDA m : IsApiReqStarted(m) \/ IsApiReqFinished(m))

\* C39: in the display log api_req_started and api_req_finished alternate,
\* the first of them an api_req_started; the retry of a failed provider call
\* adds no api_req_started of its own.
C39_StartedAndFinishedAlternate ==
    \A k \in 1..Len(ApiReqEntries) :
        IF k % 2 = 1 THEN IsApiReqStarted(ApiReqEntries[k])
                     ELSE IsApiReqFinished(ApiReqEntries[k])

C39_RetriedBetweenStartedAndFinished ==
    \E i, j, k, l \in 1..Len(claudeMessages) :
        /\ i < j /\ j < k /\ k < l
        /\ IsApiReqStarted(claudeMessages[i])
        /\ claudeMessages[j].type = "say" /\ claudeMessages[j].subtype = "api_req_retried"
        /\ IsApiReqFinished(claudeMessages[k])
        /\ IsApiReqStarted(claudeMessages[l])
        /\ \A n \in (i + 1)..(k - 1) : ~IsApiReqStarted(claudeMessages[n])


\* C40: in what convertToOpenAiMessages returns for a canonical history,
\* every assistant message with tool_calls is followed directly by one tool
\* message for each of its tool_call ids, before any user message, also when
\* the answering user turn holds text or image blocks.
C40_ToolMessagesFollowToolCalls ==
    \A k \in 1..Len(openAiMessages) :
        LET m == openAiMessages[k]
            n == Len(m.tool_calls)
        IN (m.role = "assistant" /\ n > 0)
              => /\ k + n <= Len(openAiMessages)
                 /\ \A j \in 1..n : openAiMessages[k + j].role = "tool"
                 /\ {openAiMessages[k + j].tool_call_id : j \in 1..n}
                       = {m.tool_calls[j].id : j \in 1..n}

====
